---------------------------- MODULE Spec2Model ----------------------------
(***************************************************************************)
(* A model of the Recursive Capability Protocol (recursive_protocol.py):  *)
(* the CapabilityRegistry, the CapabilityGenerator and the                *)
(* RecursiveProtocol engine that drives them.                             *)
(*                                                                         *)
(* Python dicts keep insertion order and overwrite a key in place, so a   *)
(* dict is modelled as a sequence of entries with pairwise distinct keys. *)
(* An Optional result is a sequence of length 0 (None) or 1.  An optional *)
(* string (created_by, cultivate's name) is "" when absent: the code only *)
(* tests such strings for truthiness, and "" is falsy like None.          *)
(* Names and provenance keys are strings, built by concatenation exactly  *)
(* as the f-strings of the code build them.                               *)
(***************************************************************************)
EXTENDS Integers, Sequences, FiniteSets, TLC

VARIABLES
    capabilities,         \* registry.capabilities: name -> Capability, in dict order
    lineage,              \* registry.lineage: provenance key -> list of child names
    cycle_count,          \* RecursiveProtocol.cycle_count
    consciousness_level,  \* RecursiveProtocol.consciousness_level
    last,                 \* the last call made on the protocol: its name, arguments, result
    latest,               \* history: for every name, the capability last handed to register
    born,                 \* history: the capabilities the last call generated, each with
                          \* the layers its sources had in the registry it was generated from
    memo,                 \* the caches of the memoized closures: (cell, key) -> value
    memo_log,             \* history: per memoized closure and argument tuple, the outcomes of
                          \* its invocations and how often it invoked its target
    bound,                \* history: for every generated capability registered, the
                          \* callables its source names had in the registry it was made from
    phase,                \* SolutionEngine.phase
    problem,              \* SolutionEngine.problem: none, or one Problem
    perspectives,         \* SolutionEngine.perspectives: name -> Perspective, in dict order
    negation,             \* SolutionEngine.negation: none, or one NegationZone
    solution,             \* SolutionEngine.solution: none, or one Solution
    agents,               \* AgentTroupe.agents: the roles, in dict order
    inboxes,              \* Agent.messages of every agent of the troupe, by role
    shared_context,       \* AgentTroupe.shared_context
    sent                  \* history: the messages handed to _broadcast_message, in order

\* The state of the SolutionEngine and of the AgentTroupe.
dialectic == <<phase, problem, perspectives, negation, solution>>

troupe == <<agents, inboxes, shared_context, sent>>

vars == <<capabilities, lineage, cycle_count, consciousness_level, last, latest, born,
         memo, memo_log, bound, dialectic, troupe>>

\* The engine's own state (everything but the two history variables).
engine == <<capabilities, lineage, cycle_count, consciousness_level>>

-----------------------------------------------------------------------------
(* Bounds of the model and the inputs the calls are drawn from. *)

MaxCycles == 2          \* execute_cycle is called at most this often
MaxLineage == 2         \* direct generate calls register while the lineage lists hold fewer entries
MaxCaps == 3            \* cultivate and direct generate calls add names up to this many

\* cultivate(func, name, metadata): func is named by its __name__
CultivateCalls ==
    {<<"x", "", << >>>>,
     <<"y", "", [seed |-> "s"]>>,
     <<"y", "analyze_x", << >>>>,
     <<"x", "meta_analyze(x)", << >>>>}

\* generate_tool(from_capability, tool_type)
ToolCalls ==
    {<<"x", "analyzer">>, <<"analyze_x", "analyzer">>, <<"x", "safe">>,
     <<"ghost", "logged">>, <<"x", "zip">>}

\* generate_meta_tool(cap1, cap2, operation)
MetaCalls ==
    {<<"x", "y", "sequence">>, <<"x", "analyze_x", "parallel">>,
     <<"analyze_x", "x", "conditional">>,
     <<"x", "ghost", "sequence">>, <<"x", "y", "merge">>}

\* formalize(capability_name)
LookupNames == {"x"}

-----------------------------------------------------------------------------
(* Helpers *)

Max(S) == CHOOSE m \in S : \A n \in S : n <= m

RECURSIVE SumLen(_)
SumLen(lin) == IF lin = << >> THEN 0 ELSE Len(Head(lin).children) + SumLen(Tail(lin))

\* s contains sub as a substring (Python's `sub in s`).
Contains(s, sub) ==
    \E i \in 1..(Len(s) - Len(sub) + 1) : SubSeq(s, i, i + Len(sub) - 1) = sub

-----------------------------------------------------------------------------
(* CapabilityRegistry *)

\* The registry as the generator and the engine see it.
Registry == [capabilities |-> capabilities, lineage |-> lineage]

Names(caps) == {caps[i].name : i \in DOMAIN caps}

IndexOf(caps, name) == CHOOSE i \in DOMAIN caps : caps[i].name = name

Keys(lin) == {lin[i].key : i \in DOMAIN lin}

KeyIndex(lin, key) == CHOOSE i \in DOMAIN lin : lin[i].key = key

Children(lin, key) == lin[KeyIndex(lin, key)].children

\* Capability(name, func, layer, metadata, created_by); created_at is a
\* wall-clock stamp that nothing in the core reads back and is left out.
Capability(name, func, layer, metadata, created_by) ==
    [name |-> name, func |-> func, layer |-> layer,
     metadata |-> metadata, created_by |-> created_by]

\* mutant of SetItem: a name already registered keeps its first capability
SetItem_keep_first(caps, c) ==
    IF c.name \in Names(caps) THEN caps ELSE Append(caps, c)

\* mutant of SetItem: a new name takes the place of the oldest entry
SetItem_evict(caps, c) ==
    IF c.name \in Names(caps)
    THEN [caps EXCEPT ![IndexOf(caps, c.name)] = c]
    ELSE IF caps = << >> THEN <<c>> ELSE <<c>> \o Tail(caps)

\* mutant of SetItem: an overwritten name moves to the end of the dict
SetItem_move_to_end(caps, c) ==
    Append(SelectSeq(caps, LAMBDA d : d.name # c.name), c)

\* self.capabilities[capability.name] = capability
SetItem(caps, c) ==
    IF c.name \in Names(caps)
    THEN [caps EXCEPT ![IndexOf(caps, c.name)] = c]
    ELSE Append(caps, c)

\* mutant of TrackLineage: the list of the provenance key is replaced, not extended
TrackLineage_replace(lin, c) ==
    IF c.created_by # ""
    THEN LET lin1 == IF c.created_by \notin Keys(lin)
                     THEN Append(lin, [key |-> c.created_by, children |-> << >>])
                     ELSE lin
             i == KeyIndex(lin1, c.created_by)
         IN [lin1 EXCEPT ![i].children = <<c.name>>]
    ELSE lin

\* mutant of TrackLineage: a name already listed under the key is not listed again
TrackLineage_distinct(lin, c) ==
    IF c.created_by # ""
    THEN LET lin1 == IF c.created_by \notin Keys(lin)
                     THEN Append(lin, [key |-> c.created_by, children |-> << >>])
                     ELSE lin
             i == KeyIndex(lin1, c.created_by)
         IN IF \E j \in DOMAIN lin1[i].children : lin1[i].children[j] = c.name
            THEN lin1
            ELSE [lin1 EXCEPT ![i].children = Append(@, c.name)]
    ELSE lin

\* the lineage bookkeeping of register
TrackLineage(lin, c) ==
    IF c.created_by # ""
    THEN LET lin1 == IF c.created_by \notin Keys(lin)
                     THEN Append(lin, [key |-> c.created_by, children |-> << >>])
                     ELSE lin
             i == KeyIndex(lin1, c.created_by)
         IN [lin1 EXCEPT ![i].children = Append(@, c.name)]
    ELSE lin

register(R, c) ==
    [capabilities |-> SetItem(R.capabilities, c),
     lineage |-> TrackLineage(R.lineage, c)]

get(R, name) ==
    IF name \in Names(R.capabilities)
    THEN << R.capabilities[IndexOf(R.capabilities, name)] >>
    ELSE << >>

\* mutant of list_by_layer: every capability is listed, whatever its layer
list_by_layer_any(R, layer) == R.capabilities

list_by_layer(R, layer) ==
    SelectSeq(R.capabilities, LAMBDA c : c.layer = layer)

analyze_layers(R) ==
    [l \in {R.capabilities[i].layer : i \in DOMAIN R.capabilities} |->
        Cardinality({i \in DOMAIN R.capabilities : R.capabilities[i].layer = l})]

\* mutant of depth: a name met again on the path counts as one more level
RECURSIVE depth_counts_revisit(_, _, _)
depth_counts_revisit(lin, name, visited) ==
    IF name \notin Keys(lin)
    THEN 0
    ELSE IF name \in visited
    THEN 1
    ELSE LET kids == Children(lin, name)
             children_depths ==
                 {depth_counts_revisit(lin, kids[i], visited \cup {name}) : i \in DOMAIN kids}
         IN IF kids # << >> THEN 1 + Max(children_depths) ELSE 0

RECURSIVE depth(_, _, _)
depth(lin, name, visited) ==
    IF name \in visited \/ name \notin Keys(lin)
    THEN 0
    ELSE LET kids == Children(lin, name)
             children_depths ==
                 {depth(lin, kids[i], visited \cup {name}) : i \in DOMAIN kids}
         IN IF kids # << >> THEN 1 + Max(children_depths) ELSE 0

\* mutant of max_lineage_depth: the depth is the highest layer registered
max_lineage_depth_by_layer(R) ==
    IF R.capabilities = << >>
    THEN 0
    ELSE Max({R.capabilities[i].layer : i \in DOMAIN R.capabilities})

\* mutant of max_lineage_depth: the depth is taken over the provenance keys
max_lineage_depth_over_keys(R) ==
    IF R.capabilities = << >>
    THEN 0
    ELSE Max({0} \cup {depth(R.lineage, n, {}) : n \in Keys(R.lineage)})

max_lineage_depth(R) ==
    IF R.capabilities = << >>
    THEN 0
    ELSE Max({depth(R.lineage, n, {}) : n \in Names(R.capabilities)})


-----------------------------------------------------------------------------
(* CapabilityGenerator.  Every generator reads the registry and returns an *)
(* Optional[Capability]; none of them registers anything.  A generated     *)
(* executable is a closure: its term records what the closure captured.    *)

CompositionOps == {"sequence", "parallel", "conditional"}

ModifierTypes == {"memoize", "logged", "safe"}

\* mutant of generate_from_composition: the layer is taken from cap1 alone
generate_from_composition_first_parent(R, cap1_name, cap2_name, operation) ==
    LET cap1 == get(R, cap1_name)
        cap2 == get(R, cap2_name)
    IN IF cap1 = << >> \/ cap2 = << >>
       THEN << >>
       ELSE IF operation \in CompositionOps
            THEN << Capability(
                      cap1_name \o "_" \o operation \o "_" \o cap2_name,
                      <<operation, cap1_name, cap1[1].func, cap2_name, cap2[1].func>>,
                      cap1[1].layer + 1,
                      [composition |-> operation, parents |-> <<cap1_name, cap2_name>>],
                      "compose(" \o cap1_name \o ", " \o cap2_name \o ")") >>
            ELSE << >>

generate_from_composition(R, cap1_name, cap2_name, operation) ==
    LET cap1 == get(R, cap1_name)
        cap2 == get(R, cap2_name)
    IN IF cap1 = << >> \/ cap2 = << >>
       THEN << >>
       ELSE LET new_name == cap1_name \o "_" \o operation \o "_" \o cap2_name
                new_layer == Max({cap1[1].layer, cap2[1].layer}) + 1
            IN IF operation \in CompositionOps
               THEN << Capability(
                         new_name,
                         <<operation, cap1_name, cap1[1].func, cap2_name, cap2[1].func>>,
                         new_layer,
                         [composition |-> operation, parents |-> <<cap1_name, cap2_name>>],
                         "compose(" \o cap1_name \o ", " \o cap2_name \o ")") >>
               ELSE << >>

\* mutant of generate_analyzer_for: the analyzer stays on its target's layer
generate_analyzer_for_same_layer(R, capability_name) ==
    LET target == get(R, capability_name)
    IN IF target = << >>
       THEN << >>
       ELSE << Capability(
                 "analyze_" \o capability_name,
                 <<"analyzer", capability_name, target[1].func>>,
                 target[1].layer,
                 [meta_type |-> "analyzer", target |-> capability_name],
                 "meta_analyze(" \o capability_name \o ")") >>

\* mutant of generate_analyzer_for: no check that the target is registered
generate_analyzer_for_unchecked(R, capability_name) ==
    LET target == get(R, capability_name)
    IN << Capability(
            "analyze_" \o capability_name,
            <<"analyzer", capability_name,
              IF target = << >> THEN << >> ELSE target[1].func>>,
            IF target = << >> THEN 0 ELSE target[1].layer + 1,
            [meta_type |-> "analyzer", target |-> capability_name],
            "meta_analyze(" \o capability_name \o ")") >>

generate_analyzer_for(R, capability_name) ==
    LET target == get(R, capability_name)
    IN IF target = << >>
       THEN << >>
       ELSE << Capability(
                 "analyze_" \o capability_name,
                 <<"analyzer", capability_name, target[1].func>>,
                 target[1].layer + 1,
                 [meta_type |-> "analyzer", target |-> capability_name],
                 "meta_analyze(" \o capability_name \o ")") >>

\* A memoized closure owns the cache created with it (cache = {}): its term
\* carries the number of that cache, the count of lineage entries at the
\* moment of generation, which every registration of a generated capability
\* raises.
generate_modifier_for(R, capability_name, modification_type) ==
    LET target == get(R, capability_name)
    IN IF target = << >>
       THEN << >>
       ELSE IF modification_type \in ModifierTypes
            THEN << Capability(
                      capability_name \o "_" \o modification_type,
                      IF modification_type = "memoize"
                      THEN <<modification_type, capability_name, target[1].func,
                             SumLen(R.lineage)>>
                      ELSE <<modification_type, capability_name, target[1].func>>,
                      target[1].layer + 1,
                      [meta_type |-> "modifier", modification |-> modification_type,
                       target |-> capability_name],
                      "modify(" \o capability_name \o ", " \o modification_type \o ")") >>
            ELSE << >>

-----------------------------------------------------------------------------
(* RecursiveProtocol: the calls as functions of the registry.  Each returns *)
(* the registry after the call and the call's result.                       *)

\* `if tool: self.registry.register(tool)`
RegisterIfAny(R, tool) == IF tool # << >> THEN register(R, tool[1]) ELSE R

\* func stands for the callable and is named by its __name__
cultivate(R, func, name, metadata) ==
    LET cap_name == IF name # "" THEN name ELSE func
        capability == Capability(cap_name, <<"fn", func>>, 0, metadata, "")
    IN [registry |-> register(R, capability), result |-> capability]

\* mutant of generate_tool: a tool type it does not know makes an analyzer
generate_tool_default_analyzer(R, from_capability, tool_type) ==
    LET tool == IF tool_type \in ModifierTypes
                THEN generate_modifier_for(R, from_capability, tool_type)
                ELSE generate_analyzer_for(R, from_capability)
    IN [registry |-> RegisterIfAny(R, tool), result |-> tool]

generate_tool(R, from_capability, tool_type) ==
    LET tool == IF tool_type = "analyzer"
                THEN generate_analyzer_for(R, from_capability)
                ELSE IF tool_type \in ModifierTypes
                     THEN generate_modifier_for(R, from_capability, tool_type)
                     ELSE << >>
    IN [registry |-> RegisterIfAny(R, tool), result |-> tool]

generate_meta_tool(R, cap1, cap2, operation) ==
    LET meta_tool == generate_from_composition(R, cap1, cap2, operation)
    IN [registry |-> RegisterIfAny(R, meta_tool), result |-> meta_tool]

\* The loop of execute_cycle over the list taken before the loop starts:
\* todo is what is left of layer_0_caps[:3], tools the analyzers made so far,
\* read (history) the registry each of them was generated from.
RECURSIVE cycle_loop(_, _, _, _)
cycle_loop(R, todo, tools, read) ==
    IF todo = << >>
    THEN [registry |-> R, tools |-> tools, read |-> read]
    ELSE LET g == generate_tool(R, Head(todo).name, "analyzer")
         IN cycle_loop(g.registry, Tail(todo),
                       IF g.result # << >> THEN tools \o g.result ELSE tools,
                       IF g.result # << >> THEN Append(read, R) ELSE read)

CycleLimit == 3

\* mutant of FirstN: the slice keeps the whole list
FirstN_all(s, n) == s

FirstN(s, n) == SubSeq(s, 1, IF Len(s) < n THEN Len(s) ELSE n)

\* history: what register was handed, name by name
Record(lat, tools) ==
    LET new == {tools[i].name : i \in DOMAIN tools}
    IN [n \in DOMAIN lat \cup new |->
          IF n \in new
          THEN tools[Max({i \in DOMAIN tools : tools[i].name = n})]
          ELSE lat[n]]

\* the names a generated capability records as what it was derived from
SourceNames(c) ==
    IF "target" \in DOMAIN c.metadata
    THEN {c.metadata.target}
    ELSE IF "parents" \in DOMAIN c.metadata
         THEN {c.metadata.parents[i] : i \in DOMAIN c.metadata.parents}
         ELSE {}

\* history: a generated capability with the layers its sources had in R
Birth(R, tool) ==
    [tool |-> tool,
     source_layers |-> {get(R, n)[1].layer : n \in SourceNames(tool) \cap Names(R.capabilities)}]

\* the names a generated capability was derived from, in the order it calls them
OrderedSources(c) ==
    IF "target" \in DOMAIN c.metadata
    THEN <<c.metadata.target>>
    ELSE IF "parents" \in DOMAIN c.metadata THEN c.metadata.parents ELSE << >>

\* history: the capability `tool`, generated from registry R, holds the
\* callables R had under its source names
Bind(bnd, R, tool) ==
    [n \in DOMAIN bnd \cup {tool.name} |->
        IF n = tool.name
        THEN [i \in DOMAIN OrderedSources(tool) |->
                 LET source == get(R, OrderedSources(tool)[i])
                 IN IF source # << >> THEN source[1].func ELSE << >>]
        ELSE bnd[n]]

RECURSIVE BindAll(_, _, _)
BindAll(bnd, read, tools) ==
    IF tools = << >>
    THEN bnd
    ELSE BindAll(Bind(bnd, Head(read), Head(tools)), Tail(read), Tail(tools))

\* history: a capability that is not generated takes the name
Unbind(bnd, name) == [n \in DOMAIN bnd \ {name} |-> bnd[n]]

\* bound of the model: a direct generate call registers only while the
\* lineage lists hold fewer than MaxLineage entries
Bounded(tool) == tool # << >> => SumLen(lineage) < MaxLineage

-----------------------------------------------------------------------------
(* PatternAnalyzer *)

\* What ast.parse and _extract_function_calls make of the source text of a
\* cultivated function, by its __name__: the names at its call sites in the
\* order ast.walk meets them, one entry per call site.
\*   twice(x):  return len(str(x)) + len(x)       other(x): return abs(x) + max(x, 1)
\*   once(x):   return abs(x)                      every other function calls nothing
CallSites(f) ==
    CASE f = "twice" -> <<"len", "len", "str">>
      [] f = "once"  -> <<"abs">>
      [] f = "other" -> <<"abs", "max">>
      [] OTHER       -> << >>

\* functions defined inside another function: inspect.getsource returns their
\* text indented, and ast.parse raises on it
NestedFunctions == {"nested"}

\* cap.source parsed and its calls extracted; none when ast.parse raises.  The
\* closures the generator builds are nested definitions as well.
functions_called(func) ==
    IF func[1] = "fn" /\ func[2] \notin NestedFunctions
    THEN << CallSites(func[2]) >>
    ELSE << >>

\* analyze_code_patterns: one pattern per capability whose source parses
RECURSIVE analyze_code_patterns(_)
analyze_code_patterns(caps) ==
    IF caps = << >>
    THEN << >>
    ELSE LET called == functions_called(Head(caps).func)
         IN (IF called # << >>
             THEN << [capability |-> Head(caps).name, functions_called |-> called[1]] >>
             ELSE << >>) \o analyze_code_patterns(Tail(caps))

\* one entry of s per call site of symbol in calls
RECURSIVE OncePerSite(_, _, _)
OncePerSite(calls, symbol, s) ==
    IF calls = << >>
    THEN << >>
    ELSE (IF Head(calls) = symbol THEN <<s>> ELSE << >>)
            \o OncePerSite(Tail(calls), symbol, s)

\* common[func_call] after the grouping loops
RECURSIVE bucket(_, _)
bucket(patterns, symbol) ==
    IF patterns = << >>
    THEN << >>
    ELSE OncePerSite(Head(patterns).functions_called, symbol, Head(patterns).capability)
            \o bucket(Tail(patterns), symbol)

find_common_patterns(R) ==
    LET patterns == analyze_code_patterns(R.capabilities)
        symbols == UNION {{patterns[i].functions_called[j] :
                              j \in DOMAIN patterns[i].functions_called} :
                          i \in DOMAIN patterns}
    IN [k \in {s \in symbols : Len(bucket(patterns, s)) > 1} |-> bucket(patterns, k)]

-----------------------------------------------------------------------------
(* Executing capabilities.                                                  *)
(*                                                                          *)
(* A Python value is a tagged tuple: <<"int", n>>, <<"bool", b>>,           *)
(* <<"str", s>>, <<"dict", pairs>> with pairs a sequence of <<key, value>>  *)
(* in insertion order, <<"tuple", values>>, and a raised exception          *)
(* <<"exc", type, message>>.  An argument list is a sequence of values;     *)
(* keyword arguments are always empty.  The outcome of a call is            *)
(* [raised, value]: the value returned, or the exception raised.            *)

PyInt(n) == <<"int", n>>
PyBool(b) == <<"bool", b>>
PyStr(s) == <<"str", s>>
PyDict(pairs) == <<"dict", pairs>>

Returns(v) == [raised |-> FALSE, value |-> v]
Raises(type, message) == [raised |-> TRUE, value |-> <<"exc", type, message>>]

\* `except Exception` catches everything but the exceptions that derive from
\* BaseException only
IsException(type) == type \notin {"SystemExit", "KeyboardInterrupt", "GeneratorExit"}

\* bool(v)
Truthy(v) ==
    CASE v[1] = "int"  -> v[2] # 0
      [] v[1] = "bool" -> v[2]
      [] v[1] = "str"  -> v[2] # ""
      [] OTHER         -> v[2] # << >>

\* the value of a dict at a key it holds
DictGet(d, key) == d[2][CHOOSE i \in DOMAIN d[2] : d[2][i][1] = key][2]

DictKeys(d) == {d[2][i][1] : i \in DOMAIN d[2]}

\* str() of the integers and of an argument tuple of integers and booleans
Digits == <<"0", "1", "2", "3", "4", "5", "6", "7", "8", "9">>

RECURSIVE NatStr(_)
NatStr(n) == IF n < 10 THEN Digits[n + 1] ELSE NatStr(n \div 10) \o Digits[(n % 10) + 1]

IntStr(n) == IF n < 0 THEN "-" \o NatStr(0 - n) ELSE NatStr(n)

repr(v) ==
    CASE v[1] = "int"  -> IntStr(v[2])
      [] v[1] = "bool" -> IF v[2] THEN "True" ELSE "False"

RECURSIVE JoinRepr(_)
JoinRepr(args) ==
    IF Len(args) = 1
    THEN repr(args[1])
    ELSE repr(args[1]) \o ", " \o JoinRepr(Tail(args))

TupleStr(args) ==
    IF args = << >>
    THEN "()"
    ELSE IF Len(args) = 1
         THEN "(" \o repr(args[1]) \o ",)"
         ELSE "(" \o JoinRepr(args) \o ")"

\* The functions the callers cultivate and execute:
\*   add(a, b): return a + b          is_even(n): return n % 2 == 0
\*   multiply(a, b): return a * b     boom(*args): raise ValueError("bad")
\*   quit(*args): sys.exit()
Params(f) ==
    CASE f = "add"      -> <<"a", "b">>
      [] f = "multiply" -> <<"a", "b">>
      [] f = "is_even"  -> <<"n">>

\* the TypeError Python raises for a wrong number of positional arguments
ArityError(f, args) ==
    LET k == Len(Params(f))
        n == Len(args)
    IN IF n > k
       THEN Raises("TypeError",
                f \o "() takes " \o NatStr(k) \o " positional argument"
                  \o (IF k = 1 THEN "" ELSE "s") \o " but " \o NatStr(n)
                  \o (IF n = 1 THEN " was" ELSE " were") \o " given")
       ELSE Raises("TypeError",
                f \o "() missing " \o NatStr(k - n) \o " required positional argument"
                  \o (IF k - n = 1 THEN ": '" \o Params(f)[k] \o "'"
                      ELSE "s: '" \o Params(f)[1] \o "' and '" \o Params(f)[2] \o "'"))

IsNumber(v) == v[1] \in {"int", "bool"}

\* the integer a number counts as in arithmetic (True is 1, False is 0)
Num(v) == IF v[1] = "bool" THEN (IF v[2] THEN 1 ELSE 0) ELSE v[2]

\* type(v).__name__
TypeName(v) == IF v[1] = "exc" THEN v[2] ELSE v[1]

\* the TypeError of a binary operator applied to operands it does not support
OperandError(op, l, r) ==
    Raises("TypeError", "unsupported operand type(s) for " \o op \o ": '"
                          \o TypeName(l) \o "' and '" \o TypeName(r) \o "'")

\* calling a cultivated function
Apply(f, args) ==
    CASE f = "add" ->
            IF Len(args) # 2 THEN ArityError(f, args)
            ELSE IF IsNumber(args[1]) /\ IsNumber(args[2])
                 THEN Returns(PyInt(Num(args[1]) + Num(args[2])))
                 ELSE OperandError("+", args[1], args[2])
      [] f = "multiply" ->
            IF Len(args) # 2 THEN ArityError(f, args)
            ELSE IF IsNumber(args[1]) /\ IsNumber(args[2])
                 THEN Returns(PyInt(Num(args[1]) * Num(args[2])))
                 ELSE OperandError("*", args[1], args[2])
      [] f = "is_even" ->
            IF Len(args) # 1 THEN ArityError(f, args)
            ELSE IF IsNumber(args[1])
                 THEN Returns(PyBool(Num(args[1]) % 2 = 0))
                 ELSE OperandError("%", args[1], PyInt(2))
      [] f = "boom" -> Raises("ValueError", "bad")
      [] f = "quit" -> Raises("SystemExit", "")

\* the cache of the memoized closure numbered cell
CacheKeys(cells, cell) == {p[2] : p \in {q \in DOMAIN cells : q[1] = cell}}

CacheGet(cells, cell, key) == cells[<<cell, key>>]

\* cache[key] = value
CachePut(cells, cell, key, value) ==
    [p \in DOMAIN cells \cup {<<cell, key>>} |->
        IF p = <<cell, key>> THEN value ELSE cells[p]]

\* one call a closure made: whom it called, with what, and how the call ended
Called(name, args, o) ==
    [callee |-> name, args |-> args, raised |-> o.raised, value |-> o.value]

\* mutant of ExecSequence: cap2 runs, but the composition returns cap1's result
ExecSequence_returns_first(cap1_name, a, cap2_name, b, args) ==
    IF a.raised
    THEN [raised |-> TRUE, value |-> a.value,
          calls |-> <<Called(cap1_name, args, a)>>, memo |-> a.memo]
    ELSE [raised |-> b.raised, value |-> IF b.raised THEN b.value ELSE a.value,
          calls |-> <<Called(cap1_name, args, a), Called(cap2_name, <<a.value>>, b)>>,
          memo |-> b.memo]

\* sequence: result1 = cap1.func(*args, **kwargs); return cap2.func(result1)
\* a is the run of cap1 on args, b the run of cap2 on a's result
ExecSequence(cap1_name, a, cap2_name, b, args) ==
    IF a.raised
    THEN [raised |-> TRUE, value |-> a.value,
          calls |-> <<Called(cap1_name, args, a)>>, memo |-> a.memo]
    ELSE [raised |-> b.raised, value |-> b.value,
          calls |-> <<Called(cap1_name, args, a), Called(cap2_name, <<a.value>>, b)>>,
          memo |-> b.memo]

\* mutant of ExecParallel: a failure of cap2 is left out of the mapping
ExecParallel_partial(cap1_name, a, cap2_name, b, args) ==
    IF a.raised
    THEN [raised |-> TRUE, value |-> a.value,
          calls |-> <<Called(cap1_name, args, a)>>, memo |-> a.memo]
    ELSE [raised |-> FALSE,
          value |-> IF b.raised THEN PyDict(<< <<cap1_name, a.value>> >>)
                    ELSE PyDict(IF cap1_name = cap2_name
                              THEN << <<cap1_name, b.value>> >>
                              ELSE << <<cap1_name, a.value>>, <<cap2_name, b.value>> >>),
          calls |-> <<Called(cap1_name, args, a), Called(cap2_name, args, b)>>,
          memo |-> b.memo]

\* parallel: {cap1_name: cap1.func(*args, **kwargs), cap2_name: cap2.func(*args, **kwargs)}
\* a is the run of cap1 on args, b the run of cap2 on args after it
ExecParallel(cap1_name, a, cap2_name, b, args) ==
    IF a.raised
    THEN [raised |-> TRUE, value |-> a.value,
          calls |-> <<Called(cap1_name, args, a)>>, memo |-> a.memo]
    ELSE [raised |-> b.raised,
          value |-> IF b.raised THEN b.value
                    ELSE PyDict(IF cap1_name = cap2_name
                              THEN << <<cap1_name, b.value>> >>
                              ELSE << <<cap1_name, a.value>>, <<cap2_name, b.value>> >>),
          calls |-> <<Called(cap1_name, args, a), Called(cap2_name, args, b)>>,
          memo |-> b.memo]

\* mutant of ExecConditional: cap2 receives cap1's result, as in a sequence
ExecConditional_feeds_result(cap1_name, a, cap2_name, b, args) ==
    ExecSequence(cap1_name, a, cap2_name, b, args)

\* conditional: cap2 runs on the same arguments only if cap1's result is truthy
ExecConditional(cap1_name, a, cap2_name, b, args) ==
    IF a.raised \/ ~Truthy(a.value)
    THEN [raised |-> a.raised, value |-> a.value,
          calls |-> <<Called(cap1_name, args, a)>>, memo |-> a.memo]
    ELSE [raised |-> b.raised, value |-> b.value,
          calls |-> <<Called(cap1_name, args, a), Called(cap2_name, args, b)>>,
          memo |-> b.memo]

\* mutant of ExecAnalyzer: the bundle carries the arguments in place of the result
ExecAnalyzer_args_as_result(capability_name, t, args) ==
    [raised |-> t.raised,
     value |-> IF t.raised THEN t.value
               ELSE PyDict(<< <<"target", PyStr(capability_name)>>,
                            <<"result", <<"tuple", args>>>>,
                            <<"args", <<"tuple", args>>>>,
                            <<"kwargs", PyDict(<< >>)>> >>),
     calls |-> <<Called(capability_name, args, t)>>, memo |-> t.memo]

\* analyzer_func: the bundle of the target's result; its execution_time (a
\* wall-clock difference) and its analysis (the target's static summary, which
\* reads no state the model holds) are left out.  t is the run of the target.
ExecAnalyzer(capability_name, t, args) ==
    [raised |-> t.raised,
     value |-> IF t.raised THEN t.value
               ELSE PyDict(<< <<"target", PyStr(capability_name)>>,
                            <<"result", t.value>>,
                            <<"args", <<"tuple", args>>>>,
                            <<"kwargs", PyDict(<< >>)>> >>),
     calls |-> <<Called(capability_name, args, t)>>, memo |-> t.memo]

\* mutant of ExecMemoized: the target is called on every invocation
ExecMemoized_no_cache(capability_name, cell, cells, t, args) ==
    [raised |-> t.raised, value |-> t.value,
     calls |-> <<Called(capability_name, args, t)>>, memo |-> t.memo]

\* memoized_func: key = str(args) + str(kwargs); the target runs only when the
\* key is not in the cache, and its result is stored once it has returned.
\* t is the run of the target on args from the caches as they are.
ExecMemoized(capability_name, cell, cells, t, args) ==
    LET key == TupleStr(args) \o "{}"
    IN IF key \in CacheKeys(cells, cell)
       THEN [raised |-> FALSE, value |-> CacheGet(cells, cell, key),
             calls |-> << >>, memo |-> cells]
       ELSE [raised |-> t.raised, value |-> t.value,
             calls |-> <<Called(capability_name, args, t)>>,
             memo |-> IF t.raised THEN t.memo
                      ELSE CachePut(t.memo, cell, key, t.value)]

\* logged_func: prints, and returns what the target returns
ExecLogged(capability_name, t, args) ==
    [raised |-> t.raised, value |-> t.value,
     calls |-> <<Called(capability_name, args, t)>>, memo |-> t.memo]

\* mutant of ExecSafe: every raise is caught, BaseException included
ExecSafe_catch_all(capability_name, t, args) ==
    [raised |-> FALSE,
     value |-> IF t.raised
               THEN PyDict(<< <<"error", PyStr(t.value[3])>>, <<"type", PyStr(t.value[2])>> >>)
               ELSE t.value,
     calls |-> <<Called(capability_name, args, t)>>, memo |-> t.memo]

\* safe_func: except Exception as e: return {'error': str(e), 'type': type(e).__name__}
ExecSafe(capability_name, t, args) ==
    [raised |-> t.raised /\ ~IsException(t.value[2]),
     value |-> IF t.raised /\ IsException(t.value[2])
               THEN PyDict(<< <<"error", PyStr(t.value[3])>>, <<"type", PyStr(t.value[2])>> >>)
               ELSE t.value,
     calls |-> <<Called(capability_name, args, t)>>, memo |-> t.memo]

\* Calling the callable func with args while the caches are cells: how the
\* call ends, the calls the callable itself made, and the caches left behind.
RECURSIVE Exec(_, _, _)
Exec(func, args, cells) ==
    CASE func[1] = "fn" ->
            LET o == Apply(func[2], args)
            IN [raised |-> o.raised, value |-> o.value, calls |-> << >>, memo |-> cells]
      [] func[1] = "sequence" ->
            LET a == Exec(func[3], args, cells)
            IN ExecSequence(func[2], a, func[4], Exec(func[5], <<a.value>>, a.memo), args)
      [] func[1] = "parallel" ->
            LET a == Exec(func[3], args, cells)
            IN ExecParallel(func[2], a, func[4], Exec(func[5], args, a.memo), args)
      [] func[1] = "conditional" ->
            LET a == Exec(func[3], args, cells)
            IN ExecConditional(func[2], a, func[4], Exec(func[5], args, a.memo), args)
      [] func[1] = "analyzer" ->
            ExecAnalyzer(func[2], Exec(func[3], args, cells), args)
      [] func[1] = "memoize" ->
            ExecMemoized(func[2], func[4], cells, Exec(func[3], args, cells), args)
      [] func[1] = "logged" ->
            ExecLogged(func[2], Exec(func[3], args, cells), args)
      [] func[1] = "safe" ->
            ExecSafe(func[2], Exec(func[3], args, cells), args)

-----------------------------------------------------------------------------
(* The reports *)

\* Builtins such as max: inspect.getsource finds no text for them (their source
\* is ""), and inspect.signature finds no signature and raises ValueError.
SignaturelessBuiltins == {"max"}

\* cap.analyze() reads inspect.signature(self.func): the exception it raises,
\* none when the callable has a signature (every Python-level function has)
analyze_error(c) ==
    IF c.func[1] = "fn" /\ c.func[2] \in SignaturelessBuiltins
    THEN << Raises("ValueError",
                   "no signature found for builtin <built-in function " \o c.func[2] \o ">") >>
    ELSE << >>

\* analyze_all() analyses every capability in dict order: the first exception, if any
analyze_all_error(R) ==
    LET failing == SelectSeq(R.capabilities, LAMBDA c : analyze_error(c) # << >>)
    IN IF failing = << >> THEN << >> ELSE analyze_error(failing[1])

\* the report of analyze_all() when it completes (the per-capability summaries
\* and the count of the registry's unused patterns list are left out)
analyze_all(R) ==
    [total_capabilities |-> Len(R.capabilities),
     layers |-> analyze_layers(R),
     lineage_depth |-> max_lineage_depth(R)]

\* mutant of introspect: the level reported is computed afresh, not the stored one
introspect_recomputed(R, cycles, level) ==
    [system_state |-> [cycle_count |-> cycles,
                       consciousness_level |->
                           max_lineage_depth(R) * Len(R.capabilities),
                       total_capabilities |-> Len(R.capabilities)],
     capability_analysis |-> analyze_all(R),
     patterns |-> find_common_patterns(R),
     self_reflection |->
        [can_analyze |-> \E n \in Names(R.capabilities) : Contains(n, "analyze"),
         can_modify |-> \E n \in Names(R.capabilities) : Contains(n, "modify"),
         can_compose |-> Len(R.lineage) > 0,
         recursive_depth |-> max_lineage_depth(R)]]

introspect(R, cycles, level) ==
    [system_state |-> [cycle_count |-> cycles,
                       consciousness_level |-> level,
                       total_capabilities |-> Len(R.capabilities)],
     capability_analysis |-> analyze_all(R),
     patterns |-> find_common_patterns(R),
     self_reflection |->
        [can_analyze |-> \E n \in Names(R.capabilities) : Contains(n, "analyze"),
         can_modify |-> \E n \in Names(R.capabilities) : Contains(n, "modify"),
         can_compose |-> Len(R.lineage) > 0,
         recursive_depth |-> max_lineage_depth(R)]]

formalize(R, capability_name) ==
    LET cap == get(R, capability_name)
    IN IF cap = << >>
       THEN << >>
       ELSE << [name |-> cap[1].name, layer |-> cap[1].layer,
                type |-> "formalized_specification",
                provenance |-> [created_by |-> cap[1].created_by],
                metadata |-> cap[1].metadata] >>

\* mutant of cycle_level: the metric is computed before the loop registers
cycle_level_before_loop(R0, R1) == max_lineage_depth(R0) * Len(R0.capabilities)

\* the metric execute_cycle stores, from the registry R1 the loop left
\* (R0 is the registry the call started from)
cycle_level(R0, R1) == max_lineage_depth(R1) * Len(R1.capabilities)

\* results['actions']: the number of patterns found in the registry the cycle
\* starts from, then one line per analyzer generated
cycle_actions(R, tools) ==
    <<"Discovered " \o NatStr(Cardinality(DOMAIN find_common_patterns(R))) \o " patterns">>
        \o [i \in DOMAIN tools |-> "Generated analyzer for " \o tools[i].metadata.target]

\* mutant of execute_cycle: the report is built before the counter is raised
execute_cycle_stale_count(R, count) ==
    LET done == cycle_loop(R, FirstN(list_by_layer(R, 0), CycleLimit), << >>, << >>)
        R1 == done.registry
        level == cycle_level(R, R1)
    IN [cycle_count |-> count + 1,
        registry |-> R1,
        tools |-> done.tools,
        read |-> done.read,
        level |-> level,
        report |-> [cycle |-> count,
                    actions |-> cycle_actions(R, done.tools),
                    new_capabilities |-> [i \in DOMAIN done.tools |-> done.tools[i].name],
                    consciousness_level |-> level,
                    total_capabilities |-> Len(R1.capabilities)]]

\* execute_cycle on registry R with the counter at `count`: the counter and
\* the registry it leaves, the level it stores and the report it returns.
execute_cycle(R, count) ==
    LET cycle == count + 1
        layer_0_caps == list_by_layer(R, 0)
        done == cycle_loop(R, FirstN(layer_0_caps, CycleLimit), << >>, << >>)
        R1 == done.registry
        level == cycle_level(R, R1)
    IN [cycle_count |-> cycle,
        registry |-> R1,
        tools |-> done.tools,
        read |-> done.read,
        level |-> level,
        report |-> [cycle |-> cycle,
                    actions |-> cycle_actions(R, done.tools),
                    new_capabilities |-> [i \in DOMAIN done.tools |-> done.tools[i].name],
                    consciousness_level |-> level,
                    total_capabilities |-> Len(R1.capabilities)]]

-----------------------------------------------------------------------------
(* SolutionEngine (src/dialectical/engine.py).                              *)
(*                                                                          *)
(* A dataclass instance is a record, a list a sequence, an Optional a       *)
(* sequence of length 0 or 1, and a dict a sequence of entries in insertion *)
(* order.                                                                   *)

\* The engine as its methods see it.
Engine == [phase |-> phase, problem |-> problem, perspectives |-> perspectives,
           negation |-> negation, solution |-> solution]

SolutionTypes == {"synthesis", "sublation", "reframe", "embrace", "emergence"}

\* data.get(key, default) on a dict held as a function
Get(data, key, default) == IF key \in DOMAIN data THEN data[key] ELSE default

\* str.lower() on the letters the inputs hold
UpperCase == "ABCDEFGHIJKLMNOPQRSTUVWXYZ"

LowerCase == "abcdefghijklmnopqrstuvwxyz"

LowerChar(ch) ==
    IF \E i \in 1..26 : SubSeq(UpperCase, i, i) = ch
    THEN LET i == CHOOSE j \in 1..26 : SubSeq(UpperCase, j, j) = ch
         IN SubSeq(LowerCase, i, i)
    ELSE ch

RECURSIVE Lower(_)
Lower(s) == IF s = "" THEN "" ELSE LowerChar(SubSeq(s, 1, 1)) \o Lower(SubSeq(s, 2, Len(s)))

\* crystallize_problem(surface, impossibility, reasons=None)
crystallize_problem(E, surface, impossibility, reasons) ==
    LET p == [surface_tension |-> surface, impossibility |-> impossibility,
              why_impossible |-> IF reasons = << >> THEN << >> ELSE reasons[1],
              metadata |-> << >>]
    IN [engine |-> [E EXCEPT !.problem = <<p>>, !.phase = 1], result |-> Returns(p)]

\* Perspective(name=name, claim=data.get('claim', ''), ...)
Perspective(name, data) ==
    [name |-> name,
     claim |-> Get(data, "claim", ""),
     victory_condition |-> Get(data, "victory", ""),
     assumptions |-> Get(data, "assumptions", << >>),
     non_negotiables |-> Get(data, "non_negotiables", << >>)]

\* self.perspectives[name] = Perspective(...)
SetPerspective(persp, p) ==
    IF \E i \in DOMAIN persp : persp[i].name = p.name
    THEN [persp EXCEPT ![CHOOSE i \in DOMAIN persp : persp[i].name = p.name] = p]
    ELSE Append(persp, p)

\* the loop of map_perspectives over perspectives.items()
RECURSIVE MapAll(_, _)
MapAll(persp, items) ==
    IF items = << >>
    THEN persp
    ELSE MapAll(SetPerspective(persp, Perspective(Head(items).name, Head(items).data)),
                Tail(items))

\* map_perspectives(perspectives)
map_perspectives(E, items) ==
    IF E.problem = << >>
    THEN [engine |-> E, result |-> Raises("ValueError", "Must crystallize problem first")]
    ELSE LET persp == MapAll(E.perspectives, items)
         IN [engine |-> [E EXCEPT !.perspectives = persp, !.phase = 2],
             result |-> Returns(persp)]

\* the NegationZone identify_negation builds from the first two perspectives
NegationZone(A, B) ==
    [contradiction |-> A.claim \o " vs " \o B.claim,
     both_true |-> <<A.name \o " is right that we need " \o A.claim,
                     B.name \o " is right that we need " \o B.claim>>,
     neither_sufficient |-> <<A.name \o " alone ignores " \o B.victory_condition,
                              B.name \o " alone ignores " \o A.victory_condition>>,
     impossibility_core |-> "We need both " \o A.claim \o " AND " \o B.claim
                               \o ", but they seem mutually exclusive",
     creative_tension |-> "The tension between " \o A.name \o " and " \o B.name
                             \o " points to something beyond both"]

\* mutant of identify_negation: the phase is set before the perspectives are counted
identify_negation_phase_first(E, given) ==
    LET persp == IF given = << >> THEN E.perspectives ELSE given[1]
    IN IF Len(persp) < 2
       THEN [engine |-> [E EXCEPT !.phase = 3],
             result |-> Raises("ValueError", "Need at least 2 perspectives")]
       ELSE LET zone == NegationZone(persp[1], persp[2])
            IN [engine |-> [E EXCEPT !.negation = <<zone>>, !.phase = 3],
                result |-> Returns(zone)]

\* identify_negation(perspectives=None)
identify_negation(E, given) ==
    LET persp == IF given = << >> THEN E.perspectives ELSE given[1]
    IN IF Len(persp) < 2
       THEN [engine |-> E, result |-> Raises("ValueError", "Need at least 2 perspectives")]
       ELSE LET zone == NegationZone(persp[1], persp[2])
            IN [engine |-> [E EXCEPT !.negation = <<zone>>, !.phase = 3],
                result |-> Returns(zone)]

Solution(type, description, how, A, B, transcends, sketch, questions, criteria) ==
    [solution_type |-> type, description |-> description, how_it_works |-> how,
     preserves_A |-> A, preserves_B |-> B, transcends |-> transcends,
     implementation_sketch |-> sketch, new_questions |-> questions,
     validation_criteria |-> criteria]

generate_synthesis(zone) ==
    Solution("synthesis",
             "Transcend both poles through higher-order integration",
             "By recognizing that " \o zone.creative_tension,
             <<"Core claim from perspective A">>, <<"Core claim from perspective B">>,
             zone.impossibility_core,
             "1. Identify integration point\n2. Build bridge\n3. Test",
             <<"What other contradictions does this pattern apply to?",
               "What emerges at the integration point?">>,
             <<"Both perspectives feel heard", "New capability emerged",
               "Contradiction productive not dissolved">>)

generate_sublation(zone) ==
    Solution("sublation",
             "Preserve and elevate both poles",
             "Lift both perspectives to meta-level: " \o zone.creative_tension,
             <<"Essential truth from A">>, <<"Essential truth from B">>,
             zone.impossibility_core,
             "1. Preserve both\n2. Elevate to meta\n3. Integrate",
             <<"What meta-pattern contains both?">>,
             <<"Both preserved at higher level">>)

generate_reframe(zone) ==
    Solution("reframe",
             "Change the frame that creates the contradiction",
             "The contradiction exists in a frame: " \o zone.contradiction,
             <<"What A really cares about">>, <<"What B really cares about">>,
             "The frame itself",
             "1. Identify frame\n2. Question assumptions\n3. Reframe",
             <<"What frame creates this?", "What frame dissolves it?">>,
             <<"Frame shift observable", "Contradiction dissolves">>)

generate_embrace(zone) ==
    Solution("embrace",
             "Live productively in the contradiction",
             "Make the tension productive: " \o zone.creative_tension,
             <<"A's core value">>, <<"B's core value">>,
             "The need to resolve it",
             "1. Accept tension\n2. Make it generative\n3. Iterate",
             <<"How is this tension useful?">>,
             <<"Tension remains", "Productivity increases">>)

generate_emergence(zone) ==
    Solution("emergence",
             "Let new possibility emerge from the gap",
             "The impossibility gap is creative: " \o zone.creative_tension,
             <<"A's intent">>, <<"B's intent">>,
             "Both current forms",
             "1. Create space\n2. Notice emergence\n3. Nurture",
             <<"What wants to emerge?">>,
             <<"Something new appeared", "Neither A nor B">>)

detect_solution_type(zone) == "synthesis"

\* crystallize_solution(negation=None, solution_type=None)
crystallize_solution(E, given, solution_type) ==
    LET zones == IF given = << >> THEN E.negation ELSE given
    IN IF zones = << >>
       THEN [engine |-> E, result |-> Raises("ValueError", "Must identify negation first")]
       ELSE LET type == IF solution_type = << >>
                        THEN detect_solution_type(zones[1])
                        ELSE solution_type[1]
                s == CASE type = "synthesis" -> generate_synthesis(zones[1])
                       [] type = "sublation" -> generate_sublation(zones[1])
                       [] type = "reframe" -> generate_reframe(zones[1])
                       [] type = "embrace" -> generate_embrace(zones[1])
                       [] OTHER -> generate_emergence(zones[1])
            IN [engine |-> [E EXCEPT !.solution = <<s>>, !.phase = 4], result |-> Returns(s)]

DefaultCriteria ==
    <<"preserves_both_extremes", "embraces_impossibility", "implementable",
      "generative", "reproducible">>

\* whether the solution meets one of the criteria validate_solution knows
Passed(s, criterion) ==
    CASE criterion = "preserves_both_extremes" ->
            Len(s.preserves_A) > 0 /\ Len(s.preserves_B) > 0
      [] criterion = "embraces_impossibility" -> Contains(Lower(s.transcends), "impossib")
      [] criterion = "implementable" -> Len(s.implementation_sketch) > 50
      [] criterion = "generative" -> Len(s.new_questions) > 0
      [] criterion = "reproducible" -> Len(s.validation_criteria) > 0

Message(criterion, passed) ==
    CASE criterion = "preserves_both_extremes" ->
            IF passed THEN "Both perspectives preserved" ELSE "Missing perspective preservation"
      [] criterion = "embraces_impossibility" ->
            IF passed THEN "Impossibility embraced" ELSE "Impossibility avoided"
      [] criterion = "implementable" ->
            IF passed THEN "Implementation sketch provided" ELSE "Implementation unclear"
      [] criterion = "generative" ->
            IF passed THEN "Generates new questions" ELSE "Terminal solution (not dialectical)"
      [] criterion = "reproducible" ->
            IF passed THEN "Validation criteria provided" ELSE "No validation method"

\* the results dict: one entry per known criterion asked for, then 'overall'
Validation(s, criteria) ==
    LET known == {criteria[i] : i \in DOMAIN criteria} \cap
                     {DefaultCriteria[i] : i \in DOMAIN DefaultCriteria}
    IN [k \in known \cup {"overall"} |->
          IF k = "overall"
          THEN [passed |-> \A c \in known : Passed(s, c),
                criteria_met |-> Cardinality({c \in known : Passed(s, c)}),
                total_criteria |-> Len(criteria)]
          ELSE [passed |-> Passed(s, k), message |-> Message(k, Passed(s, k))]]

\* mutant of validate_solution: the phase is left where it was
validate_solution_keeps_phase(E, given, criteria) ==
    LET sols == IF given = << >> THEN E.solution ELSE given
    IN IF sols = << >>
       THEN [engine |-> E, result |-> Raises("ValueError", "Must crystallize solution first")]
       ELSE [engine |-> E,
             result |-> Returns(Validation(sols[1],
                           IF criteria = << >> THEN DefaultCriteria ELSE criteria[1]))]

\* validate_solution(solution=None, criteria=None)
validate_solution(E, given, criteria) ==
    LET sols == IF given = << >> THEN E.solution ELSE given
    IN IF sols = << >>
       THEN [engine |-> E, result |-> Raises("ValueError", "Must crystallize solution first")]
       ELSE [engine |-> [E EXCEPT !.phase = 5],
             result |-> Returns(Validation(sols[1],
                           IF criteria = << >> THEN DefaultCriteria ELSE criteria[1]))]

\* to_dict()
to_dict(E) == E

-----------------------------------------------------------------------------
(* AgentTroupe (src/agents/troupe.py).                                      *)
(*                                                                          *)
(* An AgentMessage is a record; to_agent is none (a broadcast) or one role. *)

AgentRoles == {"negator", "crystallizer", "builder", "validator", "synthesizer"}

AgentMessage(from_agent, to_agent, content, message_type) ==
    [from_agent |-> from_agent, to_agent |-> to_agent,
     content |-> content, message_type |-> message_type]

\* agent.process(problem, context) of the agent class of each role
process(role, problem_text) ==
    CASE role = "negator" ->
            <<AgentMessage(role, << >>,
                  "What if we push " \o problem_text \o " to its extremes? What becomes impossible?",
                  "question"),
              AgentMessage(role, <<"crystallizer">>,
                  "I see a contradiction: we need both X and Y, but they seem mutually exclusive",
                  "insight"),
              AgentMessage(role, << >>,
                  "The negation zone is where both perspectives are true but neither is sufficient",
                  "insight")>>
      [] role = "crystallizer" ->
            <<AgentMessage(role, << >>,
                  "I notice a pattern: this looks like a synthesis opportunity", "insight"),
              AgentMessage(role, <<"builder">>,
                  "Solution crystallizing: we can transcend by...", "solution"),
              AgentMessage(role, << >>,
                  "This appears to be a synthesis-type solution", "insight")>>
      [] role = "builder" ->
            <<AgentMessage(role, << >>, "Building prototype implementation...", "action"),
              AgentMessage(role, <<"validator">>, "Prototype ready for validation", "artifact"),
              AgentMessage(role, << >>, "Implementation plan: 1. X, 2. Y, 3. Z", "solution")>>
      [] role = "validator" ->
            <<AgentMessage(role, << >>,
                  "Validation criteria: 1. Preserves both perspectives, 2. Implementable, 3. Generative",
                  "validation"),
              AgentMessage(role, << >>, "Running validation tests...", "action"),
              AgentMessage(role, <<"synthesizer">>,
                  "Validation results: 3/3 criteria met", "validation")>>
      [] role = "synthesizer" ->
            <<AgentMessage(role, << >>,
                  "This pattern appears in other domains: healthcare, ethics, technology",
                  "insight"),
              AgentMessage(role, << >>,
                  "This relates to dialectical framework principle: sublation", "insight"),
              AgentMessage(role, << >>,
                  "New question: What other contradictions does this pattern apply to?",
                  "question")>>

\* AgentTroupe(roles).agents: one agent per known role, in the order first given
RECURSIVE create_agents(_, _)
create_agents(made, roles) ==
    IF roles = << >>
    THEN made
    ELSE create_agents(
            IF Head(roles) \in AgentRoles /\ \A i \in DOMAIN made : made[i] # Head(roles)
            THEN Append(made, Head(roles))
            ELSE made,
            Tail(roles))

\* mutant of broadcast_message: a broadcast reaches its sender as well
broadcast_message_to_all(inb, message) ==
    IF message.to_agent = << >>
    THEN [r \in DOMAIN inb |-> Append(inb[r], message)]
    ELSE IF message.to_agent[1] \in DOMAIN inb
         THEN [inb EXCEPT ![message.to_agent[1]] = Append(@, message)]
         ELSE inb

\* _broadcast_message(message): the inboxes it leaves
broadcast_message(inb, message) ==
    IF message.to_agent = << >>
    THEN [r \in DOMAIN inb |->
             IF r # message.from_agent THEN Append(inb[r], message) ELSE inb[r]]
    ELSE IF message.to_agent[1] \in DOMAIN inb
         THEN [inb EXCEPT ![message.to_agent[1]] = Append(@, message)]
         ELSE inb

RECURSIVE broadcast_each(_, _)
broadcast_each(inb, messages) ==
    IF messages = << >>
    THEN inb
    ELSE broadcast_each(broadcast_message(inb, Head(messages)), Tail(messages))

\* the messages of one iteration: every agent processes in turn
RECURSIVE round(_, _)
round(roles, problem_text) ==
    IF roles = << >>
    THEN << >>
    ELSE process(Head(roles), problem_text) \o round(Tail(roles), problem_text)

\* all_messages of a collaborate call
RECURSIVE all_messages(_, _, _)
all_messages(roles, problem_text, iterations) ==
    IF iterations <= 0
    THEN << >>
    ELSE round(roles, problem_text) \o all_messages(roles, problem_text, iterations - 1)

\* the contents of the messages of one type
Contents(messages, type) ==
    LET chosen == SelectSeq(messages, LAMBDA m : m.message_type = type)
    IN [i \in DOMAIN chosen |-> chosen[i].content]

\* _extract_solution: the last solution message and who contributed one
extract_solution(messages) ==
    LET solution_messages == SelectSeq(messages, LAMBDA m : m.message_type = "solution")
    IN IF solution_messages # << >>
       THEN << [type |-> "collaborative",
                description |-> solution_messages[Len(solution_messages)].content,
                contributors |-> {solution_messages[i].from_agent :
                                     i \in DOMAIN solution_messages}] >>
       ELSE << >>

\* collaborate(problem, iterations): the inboxes and shared context it leaves,
\* the messages it emitted and the results it returns
collaborate(roles, inb, context, problem_text, iterations) ==
    LET emitted == all_messages(roles, problem_text, iterations)
    IN [inboxes |-> broadcast_each(inb, emitted),
        shared_context |-> IF iterations > 0
                           THEN [k \in DOMAIN context \cup {"iteration", "message_count"} |->
                                    CASE k = "iteration" -> iterations - 1
                                      [] k = "message_count" -> Len(emitted)
                                      [] OTHER -> context[k]]
                           ELSE context,
        emitted |-> emitted,
        results |-> [problem |-> problem_text,
                     iterations |-> iterations,
                     agents |-> roles,
                     message_count |-> Len(emitted),
                     insights |-> FirstN(Contents(emitted, "insight"), 5),
                     questions |-> FirstN(Contents(emitted, "question"), 3),
                     solution |-> extract_solution(emitted)]]

-----------------------------------------------------------------------------
(* The state machine: one action per public call of RecursiveProtocol. *)

Init ==
    /\ capabilities = << >>
    /\ lineage = << >>
    /\ cycle_count = 0
    /\ consciousness_level = 0
    /\ last = [op |-> "init", args |-> << >>, result |-> << >>]
    /\ latest = [n \in {} |-> << >>]
    /\ born = << >>
    /\ memo = [p \in {} |-> << >>]
    /\ memo_log = [p \in {} |-> << >>]
    /\ bound = [n \in {} |-> << >>]
    /\ phase = 0
    /\ problem = << >>
    /\ perspectives = << >>
    /\ negation = << >>
    /\ solution = << >>
    /\ agents = << >>
    /\ inboxes = [r \in {} |-> << >>]
    /\ shared_context = [k \in {} |-> 0]
    /\ sent = << >>

\* bound of the model: cultivate and the direct generate calls add a new
\* name only while fewer than MaxCaps names are registered
Room(R1) == Len(R1.capabilities) > Len(capabilities) => Len(capabilities) < MaxCaps

Cultivate(call) ==
    LET c == cultivate(Registry, call[1], call[2], call[3])
    IN /\ capabilities' = c.registry.capabilities
       /\ lineage' = c.registry.lineage
       /\ last' = [op |-> "cultivate", args |-> call, result |-> c.result]
       /\ latest' = Record(latest, <<c.result>>)
       /\ born' = << >>
       /\ bound' = Unbind(bound, c.result.name)
       /\ UNCHANGED <<cycle_count, consciousness_level, memo, memo_log, dialectic, troupe>>

CultivateBounded(call) ==
    /\ Room(cultivate(Registry, call[1], call[2], call[3]).registry)
    /\ Cultivate(call)

\* formalize(name): the specification, or the exception cap.analyze() raised
Formalize(capability_name) ==
    /\ last' = [op |-> "formalize", args |-> <<capability_name>>,
                result |-> LET cap == get(Registry, capability_name)
                           IN IF cap # << >> /\ analyze_error(cap[1]) # << >>
                              THEN analyze_error(cap[1])[1]
                              ELSE formalize(Registry, capability_name)]
    /\ born' = << >>
    /\ UNCHANGED <<engine, latest, memo, memo_log, bound, dialectic, troupe>>

GenerateTool(call) ==
    LET g == generate_tool(Registry, call[1], call[2])
    IN /\ Bounded(g.result)
       /\ Room(g.registry)
       /\ capabilities' = g.registry.capabilities
       /\ lineage' = g.registry.lineage
       /\ last' = [op |-> "generate_tool", args |-> call, result |-> g.result]
       /\ latest' = Record(latest, g.result)
       /\ born' = [i \in DOMAIN g.result |-> Birth(Registry, g.result[i])]
       /\ bound' = BindAll(bound, [i \in DOMAIN g.result |-> Registry], g.result)
       /\ UNCHANGED <<cycle_count, consciousness_level, memo, memo_log, dialectic, troupe>>

GenerateMetaTool(call) ==
    LET g == generate_meta_tool(Registry, call[1], call[2], call[3])
    IN /\ Bounded(g.result)
       /\ Room(g.registry)
       /\ capabilities' = g.registry.capabilities
       /\ lineage' = g.registry.lineage
       /\ last' = [op |-> "generate_meta_tool", args |-> call, result |-> g.result]
       /\ latest' = Record(latest, g.result)
       /\ born' = [i \in DOMAIN g.result |-> Birth(Registry, g.result[i])]
       /\ bound' = BindAll(bound, [i \in DOMAIN g.result |-> Registry], g.result)
       /\ UNCHANGED <<cycle_count, consciousness_level, memo, memo_log, dialectic, troupe>>

ExecuteCycle ==
    LET c == execute_cycle(Registry, cycle_count)
    IN /\ cycle_count < MaxCycles
       /\ cycle_count' = c.cycle_count
       /\ capabilities' = c.registry.capabilities
       /\ lineage' = c.registry.lineage
       /\ consciousness_level' = c.level
       /\ last' = [op |-> "execute_cycle", args |-> << >>, result |-> c.report]
       /\ latest' = Record(latest, c.tools)
       /\ born' = [i \in DOMAIN c.tools |-> Birth(c.read[i], c.tools[i])]
       /\ bound' = BindAll(bound, c.read, c.tools)
       /\ UNCHANGED <<memo, memo_log, dialectic, troupe>>

\* mutant of Introspect: the call stores the level it computes
Introspect_storing ==
    /\ last' = [op |-> "introspect", args |-> << >>,
                result |-> IF analyze_all_error(Registry) # << >>
                           THEN analyze_all_error(Registry)[1]
                           ELSE introspect(Registry, cycle_count, consciousness_level)]
    /\ born' = << >>
    /\ consciousness_level' = max_lineage_depth(Registry) * Len(capabilities)
    /\ UNCHANGED <<capabilities, lineage, cycle_count, latest, memo, memo_log, bound, dialectic, troupe>>

\* introspect(): the report, or the exception analyze_all() raised
Introspect ==
    /\ last' = [op |-> "introspect", args |-> << >>,
                result |-> IF analyze_all_error(Registry) # << >>
                           THEN analyze_all_error(Registry)[1]
                           ELSE introspect(Registry, cycle_count, consciousness_level)]
    /\ born' = << >>
    /\ UNCHANGED <<engine, latest, memo, memo_log, bound, dialectic, troupe>>

Next ==
    \/ \E call \in CultivateCalls : CultivateBounded(call)
    \/ \E capability_name \in LookupNames : Formalize(capability_name)
    \/ \E call \in ToolCalls : GenerateTool(call)
    \/ \E call \in MetaCalls : GenerateMetaTool(call)
    \/ ExecuteCycle
    \/ Introspect

Spec == Init /\ [][Next]_vars

\* The orchestration loop alone: capabilities are cultivated and cycles run,
\* with no bound on how many names are cultivated.
CycleCultivateCalls == CultivateCalls \cup {<<"z", "", << >>>>}

NextCycle ==
    \/ \E call \in CycleCultivateCalls : Cultivate(call)
    \/ ExecuteCycle
    \/ Introspect

SpecCycle == Init /\ [][NextCycle]_vars

\* Composition of composites: a composite is made and then used as an input
\* of a further generate_meta_tool call (demo_advanced_meta_programming).
ChainMetaCalls ==
    {<<"x", "x", "sequence">>, <<"x_sequence_x", "x", "sequence">>,
     <<"x", "y", "parallel">>, <<"x_parallel_y", "y", "conditional">>}

ChainToolCalls == {<<"x", "analyzer">>}

NextChain ==
    \/ \E call \in CultivateCalls : CultivateBounded(call)
    \/ \E call \in ChainToolCalls : GenerateTool(call)
    \/ \E call \in ChainMetaCalls : GenerateMetaTool(call)
    \/ Introspect

SpecChain == Init /\ [][NextChain]_vars

\* analyzer.find_common_patterns(), as callers of the protocol invoke it
FindCommonPatterns ==
    /\ last' = [op |-> "find_common_patterns", args |-> << >>,
                result |-> find_common_patterns(Registry)]
    /\ born' = << >>
    /\ UNCHANGED <<engine, latest, memo, memo_log, bound, dialectic, troupe>>

\* cultivate(func, name, metadata) of functions that call other functions
PatternCultivateCalls ==
    {<<"twice", "", << >>>>, <<"once", "", << >>>>, <<"other", "", << >>>>,
     <<"nested", "", << >>>>, <<"twice", "again", << >>>>, <<"max", "", << >>>>}

PatternToolCalls == {<<"once", "analyzer">>}

NextPatterns ==
    \/ \E call \in PatternCultivateCalls : CultivateBounded(call)
    \/ \E call \in PatternToolCalls : GenerateTool(call)
    \/ FindCommonPatterns
    \/ ExecuteCycle
    \/ Introspect

SpecPatterns == Init /\ [][NextPatterns]_vars

MaxInvocations == 2     \* a memoized closure is invoked at most this often per argument tuple

\* the memoized closures a caller invokes are logged by cache and arguments
Logged(func, args) == <<func[4], args>>

Times(func, args) ==
    IF Logged(func, args) \in DOMAIN memo_log
    THEN Len(memo_log[Logged(func, args)].outcomes)
    ELSE 0

\* history: the outcome of one more invocation of a memoized closure
LogInvocation(log, func, args, r) ==
    LET p == Logged(func, args)
        before == IF p \in DOMAIN log THEN log[p]
                  ELSE [outcomes |-> << >>, target_calls |-> 0]
    IN [q \in DOMAIN log \cup {p} |->
          IF q = p
          THEN [outcomes |-> Append(before.outcomes,
                                    [raised |-> r.raised, value |-> r.value]),
                target_calls |-> before.target_calls + Len(r.calls)]
          ELSE log[q]]

\* the callable registered under `name` now, or `func` when there is none
Current(name, func) ==
    IF name \in Names(capabilities) THEN get(Registry, name)[1].func ELSE func

\* a generated callable with its sources looked up again in the registry
Rebound(func) ==
    CASE func[1] \in {"sequence", "parallel", "conditional"} ->
            <<func[1], func[2], Current(func[2], func[3]), func[4], Current(func[4], func[5])>>
      [] func[1] \in {"analyzer", "logged", "safe"} ->
            <<func[1], func[2], Current(func[2], func[3])>>
      [] func[1] = "memoize" ->
            <<func[1], func[2], Current(func[2], func[3]), func[4]>>
      [] OTHER -> func

\* mutant of Invoke: the closure looks its sources up by name when it is called
Invoke_late_binding(name, args) ==
    /\ name \in Names(capabilities)
    /\ LET func == Rebound(get(Registry, name)[1].func)
           r == Exec(func, args, memo)
       IN /\ func[1] = "memoize" => Times(func, args) < MaxInvocations
          /\ last' = [op |-> "invoke", args |-> <<name, args>>,
                      result |-> [raised |-> r.raised, value |-> r.value,
                                  calls |-> r.calls]]
          /\ memo' = r.memo
          /\ memo_log' = IF func[1] = "memoize"
                         THEN LogInvocation(memo_log, func, args, r)
                         ELSE memo_log
    /\ born' = << >>
    /\ UNCHANGED <<engine, latest, bound, dialectic, troupe>>

\* a caller executes a registered capability: registry.get(name).func(*args)
Invoke(name, args) ==
    /\ name \in Names(capabilities)
    /\ LET func == get(Registry, name)[1].func
           r == Exec(func, args, memo)
       IN /\ func[1] = "memoize" => Times(func, args) < MaxInvocations
          /\ last' = [op |-> "invoke", args |-> <<name, args>>,
                      result |-> [raised |-> r.raised, value |-> r.value,
                                  calls |-> r.calls]]
          /\ memo' = r.memo
          /\ memo_log' = IF func[1] = "memoize"
                         THEN LogInvocation(memo_log, func, args, r)
                         ELSE memo_log
    /\ born' = << >>
    /\ UNCHANGED <<engine, latest, bound, dialectic, troupe>>

\* the functions cultivated for execution, and the tools made from them
ExecCultivateCalls ==
    {<<"add", "", << >>>>, <<"is_even", "", << >>>>, <<"multiply", "", << >>>>,
     <<"boom", "", << >>>>, <<"quit", "", << >>>>}

ExecToolCalls ==
    {<<"add", "safe">>, <<"boom", "safe">>, <<"quit", "safe">>,
     <<"add", "analyzer">>, <<"analyze_add", "analyzer">>}

ExecMetaCalls ==
    {<<"add", "is_even", "sequence">>, <<"boom", "is_even", "sequence">>,
     <<"add", "multiply", "parallel">>, <<"add", "boom", "parallel">>,
     <<"boom", "add", "parallel">>, <<"add", "add", "parallel">>,
     <<"add", "multiply", "conditional">>}

ExecNames ==
    {"add", "is_even", "add_safe", "boom_safe",
     "quit_safe", "analyze_add", "analyze_analyze_add", "add_sequence_is_even",
     "boom_sequence_is_even", "add_parallel_multiply", "add_parallel_boom",
     "boom_parallel_add", "add_parallel_add", "add_conditional_multiply"}

ArgTuples ==
    {<<PyInt(5), PyInt(3)>>, <<PyInt(4), PyInt(3)>>, <<PyInt(4), PyInt(5)>>,
     <<PyInt(0), PyInt(0)>>}

NextExec ==
    \/ \E call \in ExecCultivateCalls : CultivateBounded(call)
    \/ \E call \in ExecToolCalls : GenerateTool(call)
    \/ \E call \in ExecMetaCalls : GenerateMetaTool(call)
    \/ \E name \in ExecNames, args \in ArgTuples : Invoke(name, args)

SpecExec == Init /\ [][NextExec]_vars

\* memoized closures, generated (and generated again) and invoked repeatedly
MemoCultivateCalls == {<<"add", "", << >>>>, <<"boom", "", << >>>>}

MemoToolCalls == {<<"add", "memoize">>, <<"boom", "memoize">>}

MemoNames == {"add_memoize", "boom_memoize"}

MemoArgTuples == {<<PyInt(5), PyInt(3)>>, <<PyInt(4), PyInt(3)>>}

NextMemo ==
    \/ \E call \in MemoCultivateCalls : CultivateBounded(call)
    \/ \E call \in MemoToolCalls : GenerateTool(call)
    \/ \E name \in MemoNames, args \in MemoArgTuples : Invoke(name, args)

SpecMemo == Init /\ [][NextMemo]_vars

\* Sources overwritten after generation: add is cultivated and wrapped, then
\* the name add (or the name of a wrapper) is given to another callable, and
\* the wrappers made before are invoked.
BindCultivateCalls ==
    {<<"add", "", << >>>>, <<"multiply", "", << >>>>,
     <<"multiply", "add", << >>>>, <<"add", "add_safe", << >>>>}

BindToolCalls == {<<"add", "safe">>, <<"add", "analyzer">>, <<"add_safe", "logged">>}

BindMetaCalls == {<<"add", "multiply", "parallel">>}

BindNames == {"add", "add_safe", "analyze_add", "add_safe_logged", "add_parallel_multiply"}

BindArgTuples == {<<PyInt(4), PyInt(5)>>}

NextBind ==
    \/ \E call \in BindCultivateCalls : CultivateBounded(call)
    \/ \E call \in BindToolCalls : GenerateTool(call)
    \/ \E call \in BindMetaCalls : GenerateMetaTool(call)
    \/ \E name \in BindNames, args \in BindArgTuples : Invoke(name, args)

SpecBind == Init /\ [][NextBind]_vars

\* The registry used directly: capabilities are handed to register under any
\* name and any provenance, so that a name can be listed under itself or two
\* names under each other (test_lineage_tracking registers directly).
MaxEdges == 3

DepthNames == {"a", "b", "c"}

DepthProvenances == {"", "a", "b"}

\* registry.register(Capability(name, ..., created_by=created_by))
Register(name, created_by) ==
    LET c == Capability(name, <<"fn", name>>, 0, << >>, created_by)
        R1 == register(Registry, c)
    IN /\ created_by # "" => SumLen(lineage) < MaxEdges
       /\ capabilities' = R1.capabilities
       /\ lineage' = R1.lineage
       /\ last' = [op |-> "register", args |-> <<name, created_by>>, result |-> << >>]
       /\ latest' = Record(latest, <<c>>)
       /\ born' = << >>
       /\ bound' = Unbind(bound, name)
       /\ UNCHANGED <<cycle_count, consciousness_level, memo, memo_log, dialectic, troupe>>

\* registry._max_lineage_depth()
MaxLineageDepth ==
    /\ last' = [op |-> "max_lineage_depth", args |-> << >>,
                result |-> max_lineage_depth(Registry)]
    /\ UNCHANGED <<engine, latest, born, memo, memo_log, bound, dialectic, troupe>>

NextDepth ==
    \/ \E name \in DepthNames, created_by \in DepthProvenances : Register(name, created_by)
    \/ MaxLineageDepth

SpecDepth == Init /\ [][NextDepth]_vars


\* The SolutionEngine: its five phase operations called in any order, with
\* and without their optional arguments.
ProblemCalls ==
    {<<"AI safety vs capability", "Need powerful AI that's constrained", << >>>>,
     <<"Test", "Test impossibility", << <<"Seems like zero-sum tradeoff">> >>>>}

PerspectiveA ==
    [name |-> "A", data |-> [claim |-> "A", victory |-> "A wins",
                             assumptions |-> << >>, non_negotiables |-> << >>]]

PerspectiveB ==
    [name |-> "B", data |-> [claim |-> "B", victory |-> "B wins",
                             assumptions |-> << >>, non_negotiables |-> << >>]]

\* a perspective given with a claim alone
PerspectiveBare == [name |-> "B", data |-> [claim |-> "Impossible B"]]

PerspectiveDicts ==
    {<< >>, <<PerspectiveA>>, <<PerspectiveA, PerspectiveB>>, <<PerspectiveBare>>}

\* identify_negation: no argument, an empty dict, a dict of two perspectives
NegationArgs ==
    {<< >>, << << >> >>,
     << <<Perspective("B", PerspectiveB.data), Perspective("A", PerspectiveA.data)>> >>}

GivenZone == NegationZone(Perspective("A", PerspectiveA.data), Perspective("B", PerspectiveBare.data))

\* crystallize_solution: no argument, or a zone and/or a solution type
SolutionArgs ==
    {<<<< >>, << >>>>, <<<<GivenZone>>, << >>>>}
        \cup {<<<< >>, <<t>>>> : t \in SolutionTypes}

\* validate_solution: no argument, a solution, a list of criteria
ValidateArgs ==
    {<<<< >>, << >>>>,
     <<<<generate_embrace(GivenZone)>>, << >>>>,
     <<<< >>, << <<"generative", "elegant">> >>>>}

\* the engine a phase operation leaves; nothing else changes
Become(E) ==
    /\ phase' = E.phase
    /\ problem' = E.problem
    /\ perspectives' = E.perspectives
    /\ negation' = E.negation
    /\ solution' = E.solution
    /\ born' = << >>
    /\ UNCHANGED <<engine, latest, memo, memo_log, bound, troupe>>

CrystallizeProblem(call) ==
    LET r == crystallize_problem(Engine, call[1], call[2], call[3])
    IN /\ last' = [op |-> "crystallize_problem", args |-> call, result |-> r.result]
       /\ Become(r.engine)

MapPerspectives(items) ==
    LET r == map_perspectives(Engine, items)
    IN /\ last' = [op |-> "map_perspectives", args |-> <<items>>, result |-> r.result]
       /\ Become(r.engine)

IdentifyNegation(given) ==
    LET r == identify_negation(Engine, given)
    IN /\ last' = [op |-> "identify_negation", args |-> <<given>>, result |-> r.result]
       /\ Become(r.engine)

CrystallizeSolution(call) ==
    LET r == crystallize_solution(Engine, call[1], call[2])
    IN /\ last' = [op |-> "crystallize_solution", args |-> call, result |-> r.result]
       /\ Become(r.engine)

ValidateSolution(call) ==
    LET r == validate_solution(Engine, call[1], call[2])
    IN /\ last' = [op |-> "validate_solution", args |-> call, result |-> r.result]
       /\ Become(r.engine)

ToDict ==
    /\ last' = [op |-> "to_dict", args |-> << >>, result |-> Returns(to_dict(Engine))]
    /\ born' = << >>
    /\ UNCHANGED <<engine, latest, memo, memo_log, bound, dialectic, troupe>>

NextDialectic ==
    \/ \E call \in ProblemCalls : CrystallizeProblem(call)
    \/ \E items \in PerspectiveDicts : MapPerspectives(items)
    \/ \E given \in NegationArgs : IdentifyNegation(given)
    \/ \E call \in SolutionArgs : CrystallizeSolution(call)
    \/ \E call \in ValidateArgs : ValidateSolution(call)
    \/ ToDict

SpecDialectic == Init /\ [][NextDialectic]_vars

\* The AgentTroupe: troupes are made, run collaborations, and are handed
\* single messages to route.
MaxIterations == 2

MaxSent == 12           \* a collaboration runs while the troupe has routed no more messages

MaxDirect == 2          \* single messages handed to a troupe

RoleLists ==
    {<<"negator", "crystallizer", "validator">>, <<"validator">>,
     <<"builder", "observer", "builder", "crystallizer">>}

DirectMessages ==
    {AgentMessage("negator", <<"crystallizer">>, "Test message", "insight"),
     AgentMessage("crystallizer", << >>, "Test message", "insight"),
     AgentMessage("validator", <<"validator">>, "Test message", "insight"),
     AgentMessage("synthesizer", <<"synthesizer">>, "Test message", "insight")}

\* troupe = AgentTroupe(roles)
NewTroupe(roles) ==
    /\ agents' = create_agents(<< >>, roles)
    /\ inboxes' = [r \in {agents'[i] : i \in DOMAIN agents'} |-> << >>]
    /\ shared_context' = [k \in {} |-> 0]
    /\ sent' = << >>
    /\ last' = [op |-> "AgentTroupe", args |-> <<roles>>, result |-> << >>]
    /\ born' = << >>
    /\ UNCHANGED <<engine, latest, memo, memo_log, bound, dialectic>>

\* troupe._broadcast_message(message)
BroadcastMessage(message) ==
    /\ Cardinality({i \in DOMAIN sent : sent[i] \in DirectMessages}) < MaxDirect
    /\ Len(sent) < MaxSent
    /\ inboxes' = broadcast_message(inboxes, message)
    /\ sent' = Append(sent, message)
    /\ last' = [op |-> "broadcast_message", args |-> <<message>>, result |-> << >>]
    /\ born' = << >>
    /\ UNCHANGED <<engine, latest, memo, memo_log, bound, dialectic, agents, shared_context>>

\* troupe.collaborate(problem, iterations)
Collaborate(problem_text, iterations) ==
    LET c == collaborate(agents, inboxes, shared_context, problem_text, iterations)
    IN /\ Len(sent) + Len(c.emitted) <= MaxSent
       /\ inboxes' = c.inboxes
       /\ shared_context' = c.shared_context
       /\ sent' = sent \o c.emitted
       /\ last' = [op |-> "collaborate", args |-> <<problem_text, iterations>>,
                   result |-> c.results]
       /\ born' = << >>
       /\ UNCHANGED <<engine, latest, memo, memo_log, bound, dialectic, agents>>

NextTroupe ==
    \/ \E roles \in RoleLists : NewTroupe(roles)
    \/ \E message \in DirectMessages : BroadcastMessage(message)
    \/ \E iterations \in 0..MaxIterations : Collaborate("test problem", iterations)

SpecTroupe == Init /\ [][NextTroupe]_vars

-----------------------------------------------------------------------------
(* Properties *)

\* a capability a generator made (cultivate sets no provenance)
Generated(c) == c.created_by # ""

LayerOf(name) == get(Registry, name)[1].layer

\* C1 (as claimed): in every reachable state, every registered generated
\* capability has a layer strictly greater than the layer of every capability
\* now registered under the target / parents names it records.
C1_LayersIncreaseAlongEdges ==
    \A i \in DOMAIN capabilities :
        Generated(capabilities[i]) =>
            \A n \in SourceNames(capabilities[i]) \cap Names(capabilities) :
                LayerOf(n) < capabilities[i].layer

\* C1 (amended): whenever generate_tool or generate_meta_tool makes a
\* capability, called directly or from execute_cycle, that capability's layer
\* is strictly greater than the layer each of its sources has in the registry
\* it is generated from, and every source is registered there.
C1_LayerAboveSourcesWhenGenerated ==
    \A i \in DOMAIN born :
        /\ born[i].source_layers # {}
        /\ Generated(born[i].tool)
        /\ \A l \in born[i].source_layers : l < born[i].tool.layer

\* C1 witness: a capability generated from a source that was itself above layer 0
C1_Witness ==
    \E i \in DOMAIN born : \E l \in born[i].source_layers : l >= 1

\* C2: a successful generate_meta_tool(A, B, mode), mode one of sequence,
\* parallel, conditional, returns the capability named "A_mode_B" whose layer
\* is max(layer(A), layer(B)) + 1 as read when called; it is registered and
\* its name is in lineage["compose(A, B)"] right after the call.
C2_ComposeResult ==
    [][(last'.op = "generate_meta_tool" /\ last'.result # << >>) =>
          LET A == last'.args[1]
              B == last'.args[2]
              mode == last'.args[3]
              c == last'.result[1]
              key == "compose(" \o A \o ", " \o B \o ")"
          IN /\ mode \in {"sequence", "parallel", "conditional"}
             /\ A \in Names(capabilities) /\ B \in Names(capabilities)
             /\ c.name = A \o "_" \o mode \o "_" \o B
             /\ c.layer = (IF LayerOf(A) >= LayerOf(B) THEN LayerOf(A) ELSE LayerOf(B)) + 1
             /\ get(Registry', c.name) = << c >>
             /\ key \in Keys(lineage')
             /\ \E j \in DOMAIN Children(lineage', key) :
                    Children(lineage', key)[j] = c.name]_vars

\* C2 witness: a composition was just made and registered
C2_Witness ==
    /\ last.op = "generate_meta_tool"
    /\ last.result # << >>
    /\ last.result[1].name \in Names(capabilities)

\* the names the model's calls can look up
ProbeNames ==
    Names(capabilities) \cup DOMAIN latest \cup LookupNames
        \cup {c[1] : c \in ToolCalls} \cup {c[1] : c \in MetaCalls}
        \cup {c[2] : c \in MetaCalls}

\* C3: get(name) returns, for every name ever registered, a capability with
\* the layer and the metadata of the capability most recently registered
\* under that name, and the absent value for a name never registered.
C3_RegisterGetRoundTrip ==
    \A n \in ProbeNames :
        IF n \in DOMAIN latest
        THEN /\ get(Registry, n) # << >>
             /\ get(Registry, n)[1].name = n
             /\ get(Registry, n)[1].layer = latest[n].layer
             /\ get(Registry, n)[1].metadata = latest[n].metadata
        ELSE get(Registry, n) = << >>

\* C3 witness: "analyze_x", generated earlier, was just registered again
\* by cultivate and is looked up with the layer of the later registration,
\* while "ghost" was never registered
C3_Witness ==
    /\ last.op = "cultivate"
    /\ last.result.name = "analyze_x"
    /\ "meta_analyze(x)" \in Keys(lineage)
    /\ get(Registry, "analyze_x")[1].layer = 0
    /\ "ghost" \notin DOMAIN latest

\* C4: generate_tool(X, kind) with X unregistered, and generate_meta_tool(A,
\* B, mode) with A or B unregistered, return the absent result and leave the
\* capabilities map, the lineage map, cycle_count and consciousness_level
\* unchanged.
C4_NotFoundHasNoEffect ==
    [][((last'.op = "generate_tool" /\ last'.args[1] \notin Names(capabilities))
        \/ (last'.op = "generate_meta_tool"
            /\ (last'.args[1] \notin Names(capabilities)
                \/ last'.args[2] \notin Names(capabilities))))
       => (last'.result = << >> /\ UNCHANGED engine)]_vars

\* C4 witness: both calls were made on a registry that holds capabilities
\* but not the named source
C4_Witness ==
    /\ last.op = "generate_meta_tool"
    /\ last.args[2] = "ghost"
    /\ last.args[1] \in Names(capabilities)
    /\ last.result = << >>
    /\ lineage # << >>

\* C5: a composition mode other than sequence, parallel, conditional, or a
\* tool kind other than analyzer, memoize, logged, safe, yields no result and
\* leaves the capabilities map and the lineage map unchanged, also when every
\* named source is registered.
C5_UnsupportedKindHasNoEffect ==
    [][((last'.op = "generate_tool"
         /\ last'.args[2] \notin {"analyzer", "memoize", "logged", "safe"})
        \/ (last'.op = "generate_meta_tool"
            /\ last'.args[3] \notin {"sequence", "parallel", "conditional"}))
       => (last'.result = << >>
           /\ capabilities' = capabilities /\ lineage' = lineage)]_vars

\* C5 witness: an unsupported kind was asked for of a registered source
C5_Witness ==
    /\ last.op = "generate_tool"
    /\ last.args[2] = "zip"
    /\ last.args[1] \in Names(capabilities)
    /\ last.result = << >>

\* C6: cycle_count starts at 0, goes up by exactly 1 on every execute_cycle,
\* whose report carries the new count as its cycle, and is left unchanged by
\* every other call (so it never decreases).
C6_CycleCount ==
    /\ cycle_count = 0
    /\ [][IF last'.op = "execute_cycle"
          THEN cycle_count' = cycle_count + 1 /\ last'.result.cycle = cycle_count'
          ELSE cycle_count' = cycle_count]_vars

\* C6 witness: the second execute_cycle has returned its report
C6_Witness ==
    /\ last.op = "execute_cycle"
    /\ last.result.cycle = 2
    /\ cycle_count = 2

\* C7: when execute_cycle returns, consciousness_level and the report's value
\* equal max_lineage_depth() times the number of registered capabilities, both
\* taken after the cycle's registrations, and the report's total_capabilities
\* is that number.
C7_LevelAfterCycle ==
    last.op = "execute_cycle" =>
        /\ consciousness_level = max_lineage_depth(Registry) * Len(capabilities)
        /\ last.result.consciousness_level = consciousness_level
        /\ last.result.total_capabilities = Len(capabilities)

\* C7 witness: a cycle that registered capabilities ended with a level above 0
C7_Witness ==
    /\ last.op = "execute_cycle"
    /\ last.result.new_capabilities # << >>
    /\ consciousness_level > 0

\* C8 (as claimed): in every reachable state consciousness_level equals
\* max_lineage_depth() times the number of registered capabilities.
C8_LevelAlwaysCurrent ==
    consciousness_level = max_lineage_depth(Registry) * Len(capabilities)

\* C8 (amended): consciousness_level is 0 at first and is recomputed, as
\* max_lineage_depth() times the number of registered capabilities, by
\* execute_cycle only; every other call leaves it as it is, and introspect
\* reports the stored value.
C8_LevelRecomputedByCycleOnly ==
    /\ consciousness_level = 0
    /\ [][/\ IF last'.op = "execute_cycle"
             THEN consciousness_level' =
                      max_lineage_depth(Registry') * Len(capabilities')
             ELSE consciousness_level' = consciousness_level
          /\ last'.op = "introspect" =>
                 last'.result.system_state.consciousness_level = consciousness_level]_vars

\* C8 witness: introspect reported a stored level that is out of date
C8_Witness ==
    /\ last.op = "introspect"
    /\ last.result.system_state.consciousness_level = consciousness_level
    /\ consciousness_level # max_lineage_depth(Registry) * Len(capabilities)

\* the names of the layer-0 capabilities, in registry order
Layer0Names(caps) ==
    LET l0 == SelectSeq(caps, LAMBDA c : c.layer = 0)
    IN [i \in DOMAIN l0 |-> l0[i].name]

\* C9: execute_cycle registers an "analyze_<name>" wrapper for exactly the
\* first min(3, n) of the n layer-0 capabilities it starts with, in registry
\* order, and new_capabilities lists those wrappers in that order (none when
\* n = 0); nothing else is registered.
C9_CycleGeneratesFirstThree ==
    [][last'.op = "execute_cycle" =>
          LET l0 == Layer0Names(capabilities)
              k == IF Len(l0) < 3 THEN Len(l0) ELSE 3
              new == last'.result.new_capabilities
          IN /\ new = [i \in 1..k |-> "analyze_" \o l0[i]]
             /\ \A i \in 1..k :
                    /\ new[i] \in Names(capabilities')
                    /\ new[i] \in DOMAIN latest'
                    /\ latest'[new[i]].created_by = "meta_analyze(" \o l0[i] \o ")"
             /\ Names(capabilities') = Names(capabilities) \cup {new[i] : i \in 1..k}
             /\ SumLen(lineage') = SumLen(lineage) + k
             /\ last'.result.cycle = cycle_count'
             /\ last'.result.total_capabilities = Len(capabilities')]_vars

\* C9 witness: a cycle made three wrappers and left a layer-0 capability
\* without one
C9_Witness ==
    /\ last.op = "execute_cycle"
    /\ Len(last.result.new_capabilities) = 3
    /\ \E i \in DOMAIN capabilities :
           /\ capabilities[i].layer = 0
           /\ ("analyze_" \o capabilities[i].name) \notin Names(capabilities)

\* C9 witness: a cycle on the empty registry
C9_WitnessEmpty ==
    /\ last.op = "execute_cycle"
    /\ capabilities = << >>
    /\ last.result.new_capabilities = << >>

\* C10: introspect leaves the capabilities map, the lineage map, cycle_count
\* and consciousness_level unchanged, and an introspect call that follows
\* another with no call in between returns the same counters, layer
\* histogram, lineage depth and self-reflection flags.
C10_IntrospectReadOnly ==
    [][last'.op = "introspect" =>
          /\ UNCHANGED engine
          /\ last.op = "introspect" =>
                 /\ last'.result.system_state = last.result.system_state
                 /\ last'.result.capability_analysis = last.result.capability_analysis
                 /\ last'.result.self_reflection = last.result.self_reflection]_vars

\* C10 witness: introspect has reported on a registry with generated
\* capabilities after a cycle
C10_Witness ==
    /\ last.op = "introspect"
    /\ last.result.system_state.cycle_count >= 1
    /\ last.result.self_reflection.can_analyze
    /\ last.result.self_reflection.can_compose
    /\ last.result.capability_analysis.lineage_depth >= 1

\* the list a provenance key maps to, empty when the key is absent
ChildrenOrNone(lin, key) == IF key \in Keys(lin) THEN Children(lin, key) ELSE << >>

\* a step of one of the calls that hand at most one capability to register
SingleRegisterStep == last'.op \in {"cultivate", "generate_tool", "generate_meta_tool"}

\* C12: every key of the lineage map maps to a non-empty list; a call that
\* registers one capability with provenance p leaves lineage[p] equal to the
\* list it held before (none when p was absent) with the capability's name
\* appended at the end and changes no other key; a call that registers a
\* capability without provenance, or registers nothing, leaves the map unchanged.
\* (A step that changes neither the engine nor the kind of call changes no lineage.)
C12_LineageAppend ==
    [][ /\ \A i \in DOMAIN lineage' : lineage'[i].children # << >>
        /\ SingleRegisterStep =>
             LET c == IF last'.op = "cultivate" THEN <<last'.result>> ELSE last'.result
             IN IF c # << >> /\ c[1].created_by # ""
                THEN LET p == c[1].created_by
                     IN /\ Keys(lineage') = Keys(lineage) \cup {p}
                        /\ Children(lineage', p) =
                               Append(ChildrenOrNone(lineage, p), c[1].name)
                        /\ \A k \in Keys(lineage) \ {p} :
                               Children(lineage', k) = Children(lineage, k)
                ELSE lineage' = lineage ]_<<engine, last.op>>

\* C12 witness: a generate call has appended to a list that already held a name
C12_Witness ==
    /\ last.op = "generate_tool"
    /\ last.result # << >>
    /\ Len(Children(lineage, last.result[1].created_by)) = 2

\* C19: across every call (cultivate, generate_tool, generate_meta_tool,
\* execute_cycle, formalize, introspect) the set of registered names after
\* the call contains the set before it, and the number of capabilities does
\* not decrease.
C19_NamesOnlyGrow ==
    [][ /\ Names(capabilities) \subseteq Names(capabilities')
        /\ Len(capabilities') >= Len(capabilities) ]_capabilities

\* C19 witness: a cycle has added names to a registry that already held some,
\* and a direct generate call had registered a capability before it
C19_Witness ==
    /\ last.op = "execute_cycle"
    /\ Len(last.result.new_capabilities) > 0
    /\ Len(capabilities) = MaxCaps + 1
    /\ \E i \in DOMAIN capabilities : Contains(capabilities[i].created_by, "compose")

\* C20: when cultivate, generate_tool or generate_meta_tool registers a
\* capability under a name that is already registered, the number of
\* capabilities is unchanged, get(name) afterwards returns the new capability,
\* and every other capability entry is unchanged and keeps its position.
C20_OverwriteInPlace ==
    [][ SingleRegisterStep =>
          LET c == IF last'.op = "cultivate" THEN <<last'.result>> ELSE last'.result
          IN (c # << >> /\ c[1].name \in Names(capabilities)) =>
                /\ Len(capabilities') = Len(capabilities)
                /\ get(Registry', c[1].name) = c
                /\ \A i \in DOMAIN capabilities :
                      capabilities[i].name # c[1].name =>
                          capabilities'[i] = capabilities[i] ]_<<engine, last.op>>

\* C20 witness: the cultivated capability named analyze_x (layer 0), registered
\* before x was, has been overwritten in place by the generated analyzer of x
\* (layer 1, new metadata) while another capability is registered after it
C20_Witness ==
    /\ last.op = "generate_tool"
    /\ last.result # << >>
    /\ last.result[1].name = "analyze_x"
    /\ Len(capabilities) >= 2
    /\ capabilities[1] = last.result[1]
    /\ capabilities[1].layer = 1
    /\ capabilities[2].name = "x"

\* generate_meta_tool has just made a composite one of whose inputs is itself
\* a registered composite
ChainedComposeDone ==
    /\ last.op = "generate_meta_tool"
    /\ last.result # << >>
    /\ \E n \in {last.args[1], last.args[2]} :
          /\ n \in Names(capabilities)
          /\ Contains(get(Registry, n)[1].created_by, "compose(")

Invokers(symbol) ==
    {capabilities[i].name : i \in
        {j \in DOMAIN capabilities :
            /\ functions_called(capabilities[j].func) # << >>
            /\ \E k \in DOMAIN functions_called(capabilities[j].func)[1] :
                  functions_called(capabilities[j].func)[1][k] = symbol}}

CalledSymbols == {"len", "str", "abs", "max"}

\* C13 (as claimed): find_common_patterns() returns an entry for a symbol
\* exactly when two or more distinct capabilities invoke it, whatever the
\* number of call sites, and every entry lists at least two capabilities.
C13_CommonIffTwoCapabilities ==
    last.op = "find_common_patterns" =>
        /\ \A s \in CalledSymbols :
              s \in DOMAIN last.result <=> Cardinality(Invokers(s)) >= 2
        /\ \A s \in DOMAIN last.result :
              Cardinality({last.result[s][i] : i \in DOMAIN last.result[s]}) >= 2

\* the callable the last call executed (Invoke leaves the registry as it is)
InvokedFunc == get(Registry, last.args[1])[1].func

Invoked(kind) == last.op = "invoke" /\ InvokedFunc[1] = kind

C15_SafeNeverRaises ==
    Invoked("safe") =>
        LET x == last.result.calls[1]
        IN /\ Len(last.result.calls) = 1
           /\ ~last.result.raised
           /\ x.raised => DictKeys(last.result.value) = {"error", "type"}
           /\ ~x.raised => last.result.value = x.value

\* C15 (amended): if X raises an exception derived from Exception, the wrapper
\* returns {'error': str(e), 'type': type(e).__name__}; if X raises one that
\* derives from BaseException only (SystemExit, KeyboardInterrupt,
\* GeneratorExit), the wrapper raises it; if X returns, the wrapper returns
\* exactly X's value.
C15_SafeCatchesException ==
    Invoked("safe") =>
        LET x == last.result.calls[1]
        IN /\ Len(last.result.calls) = 1
           /\ x.args = last.args[2]
           /\ IF x.raised
              THEN IF IsException(x.value[2])
                   THEN /\ ~last.result.raised
                        /\ last.result.value =
                              PyDict(<< <<"error", PyStr(x.value[3])>>,
                                        <<"type", PyStr(x.value[2])>> >>)
                   ELSE /\ last.result.raised
                        /\ last.result.value = x.value
              ELSE /\ ~last.result.raised
                   /\ last.result.value = x.value

\* C15 witness: boom_safe has returned the error mapping of boom's ValueError
C15_Witness ==
    /\ last.op = "invoke"
    /\ last.args[1] = "boom_safe"
    /\ ~last.result.raised
    /\ last.result.calls[1].raised
    /\ DictGet(last.result.value, "error") = PyStr("bad")
    /\ DictGet(last.result.value, "type") = PyStr("ValueError")

\* C16: executing a sequence composition of A and B invokes A with the
\* caller's arguments; if A raises, B is not invoked and the composition
\* raises; otherwise B is invoked once, after A, with A's result as its only
\* argument, and the composition ends as B does.  add then is_even gives True
\* on (5, 3) and False on (4, 3).
C16_SequenceFeedsResult ==
    Invoked("sequence") =>
        LET calls == last.result.calls
        IN /\ calls[1].callee = InvokedFunc[2]
           /\ calls[1].args = last.args[2]
           /\ IF calls[1].raised
              THEN /\ Len(calls) = 1
                   /\ last.result.raised
                   /\ last.result.value = calls[1].value
              ELSE /\ Len(calls) = 2
                   /\ calls[2].callee = InvokedFunc[4]
                   /\ calls[2].args = <<calls[1].value>>
                   /\ last.result.raised = calls[2].raised
                   /\ last.result.value = calls[2].value
           /\ last.args = <<"add_sequence_is_even", <<PyInt(5), PyInt(3)>>>> =>
                 ~last.result.raised /\ last.result.value = PyBool(TRUE)
           /\ last.args = <<"add_sequence_is_even", <<PyInt(4), PyInt(3)>>>> =>
                 ~last.result.raised /\ last.result.value = PyBool(FALSE)

\* C16 witness: add_sequence_is_even has returned True on (5, 3), having
\* called add on (5, 3) and then is_even on 8
C16_Witness ==
    /\ last.op = "invoke"
    /\ last.args = <<"add_sequence_is_even", <<PyInt(5), PyInt(3)>>>>
    /\ last.result.value = PyBool(TRUE)
    /\ last.result.calls[1].value = PyInt(8)
    /\ last.result.calls[2].args = <<PyInt(8)>>

\* C17: executing a parallel composition of A and B invokes A and then B on
\* the caller's arguments and returns the mapping of A's name to A's result
\* and B's name to B's result; if A or B raises, the composition raises that
\* exception and returns no mapping.  add and multiply on (4, 5) give
\* {add: 9, multiply: 20}.
C17_ParallelMapsBoth ==
    Invoked("parallel") =>
        LET calls == last.result.calls
            A == InvokedFunc[2]
            B == InvokedFunc[4]
        IN /\ \A i \in DOMAIN calls : calls[i].args = last.args[2]
           /\ calls[1].callee = A
           /\ Len(calls) = 2 => calls[2].callee = B
           /\ IF \E i \in DOMAIN calls : calls[i].raised
              THEN /\ last.result.raised
                   /\ last.result.value[1] = "exc"
              ELSE /\ Len(calls) = 2
                   /\ ~last.result.raised
                   /\ DictKeys(last.result.value) = {A, B}
                   /\ DictGet(last.result.value, A) = calls[1].value
                   /\ DictGet(last.result.value, B) = calls[2].value
           /\ last.args = <<"add_parallel_multiply", <<PyInt(4), PyInt(5)>>>> =>
                 last.result.value =
                     PyDict(<< <<"add", PyInt(9)>>, <<"multiply", PyInt(20)>> >>)

\* C17 witness: add_parallel_multiply has returned {add: 9, multiply: 20} on (4, 5)
C17_Witness ==
    /\ last.op = "invoke"
    /\ last.args = <<"add_parallel_multiply", <<PyInt(4), PyInt(5)>>>>
    /\ ~last.result.raised
    /\ DictGet(last.result.value, "add") = PyInt(9)
    /\ DictGet(last.result.value, "multiply") = PyInt(20)

C23_ConditionalShortCircuits ==
    Invoked("conditional") =>
        LET calls == last.result.calls
        IN /\ calls[1].callee = InvokedFunc[2]
           /\ calls[1].args = last.args[2]
           /\ IF ~calls[1].raised /\ Truthy(calls[1].value)
              THEN /\ Len(calls) = 2
                   /\ calls[2].callee = InvokedFunc[4]
                   /\ calls[2].args = last.args[2]
                   /\ last.result.raised = calls[2].raised
                   /\ last.result.value = calls[2].value
              ELSE /\ Len(calls) = 1
                   /\ last.result.raised = calls[1].raised
                   /\ last.result.value = calls[1].value
           /\ last.args = <<"add_conditional_multiply", <<PyInt(4), PyInt(5)>>>> =>
                 ~last.result.raised /\ last.result.value = PyInt(20)
           /\ last.args = <<"add_conditional_multiply", <<PyInt(0), PyInt(0)>>>> =>
                 ~last.result.raised /\ last.result.value = PyInt(0) /\ Len(calls) = 1

\* C23 witness: add_conditional_multiply has returned add's falsy 0 on (0, 0)
\* without calling multiply
C23_Witness ==
    /\ last.op = "invoke"
    /\ last.args = <<"add_conditional_multiply", <<PyInt(0), PyInt(0)>>>>
    /\ last.result.value = PyInt(0)
    /\ Len(last.result.calls) = 1

\* C23 witness of the other branch: multiply has run on the caller's (4, 5)
C23_WitnessTruthy ==
    /\ last.op = "invoke"
    /\ last.args = <<"add_conditional_multiply", <<PyInt(4), PyInt(5)>>>>
    /\ last.result.value = PyInt(20)
    /\ last.result.calls[2].args = <<PyInt(4), PyInt(5)>>


\* C24 --------------------------------------------------------------------
\* capabilities whose source cannot be retrieved or parsed
Unparsable(c) == functions_called(c.func) = << >> \/ (c.func[1] = "fn" /\ c.func[2] \in SignaturelessBuiltins)

HealthyRegistry ==
    [capabilities |-> SelectSeq(capabilities, LAMBDA c : ~Unparsable(c)), lineage |-> lineage]

UnparsableNames == {capabilities[i].name : i \in {j \in DOMAIN capabilities : Unparsable(capabilities[j])}}

Completed(op) == last.op = op /\ "raised" \notin DOMAIN last.result

\* C24 (as claimed): a capability whose source cannot be retrieved or parsed
\* never makes find_common_patterns, execute_cycle or introspect raise, appears
\* in no pattern entry, and leaves the entries as they are without it.  The
\* code breaks this: with a builtin such as max registered, introspect() raises
\* ValueError from inspect.signature.
C24_ParseFailureLocal ==
    /\ last.op \in {"introspect", "execute_cycle"} => "raised" \notin DOMAIN last.result
    /\ last.op = "find_common_patterns" =>
          /\ last.result = find_common_patterns(HealthyRegistry)
          /\ \A f \in DOMAIN last.result : \A i \in DOMAIN last.result[f] : last.result[f][i] \notin UnparsableNames
    /\ Completed("introspect") => last.result.patterns = find_common_patterns(HealthyRegistry)


\* C27 --------------------------------------------------------------------
NoNameIsKey == Names(capabilities) \cap Keys(lineage) = {}

\* C27: while no registered name equals a provenance key, max_lineage_depth()
\* is 0 whatever the lineage map holds, and the level execute_cycle stores is 0.
C27_DepthZeroWithoutNamedKeys ==
    NoNameIsKey =>
        /\ max_lineage_depth(Registry) = 0
        /\ last.op = "execute_cycle" => consciousness_level = 0 /\ last.result.consciousness_level = 0

\* an execute_cycle over two generations of derived capabilities, none of them
\* named like a provenance key
C27_Witness ==
    /\ NoNameIsKey
    /\ last.op = "execute_cycle"
    /\ \E i \in DOMAIN capabilities : capabilities[i].layer = 2
    /\ Cardinality(Keys(lineage)) >= 2
    /\ consciousness_level = 0


\* C28 --------------------------------------------------------------------
\* how often a name is listed
Occurrences(s, name) == Cardinality({i \in DOMAIN s : s[i] = name})

\* the capabilities the step handed to register, in order
RegisteredInStep ==
    IF last'.op = "cultivate" THEN <<last'.result>>
    ELSE IF last'.op = "execute_cycle" THEN [i \in DOMAIN born' |-> born'[i].tool]
    ELSE << >>

\* the layer-0 capabilities an execute_cycle starting now generates analyzers for
CycleTargets == FirstN(list_by_layer(Registry, 0), CycleLimit)

\* C28: a lineage list records registrations, not distinct children.  Every
\* step lengthens lineage[p] by the number of registrations with provenance p
\* it made; an execute_cycle lists "analyze_X" once more under
\* "meta_analyze(X)" for each layer-0 X among the first three, while the
\* registry keeps a single capability of that name.
C28_LineageCountsRegistrations ==
    [][ /\ \A p \in Keys(lineage') :
              Len(Children(lineage', p)) =
                  Len(ChildrenOrNone(lineage, p))
                    + Cardinality({i \in DOMAIN RegisteredInStep :
                                       RegisteredInStep[i].created_by = p})
        /\ last'.op = "execute_cycle" =>
              \A i \in DOMAIN CycleTargets :
                 LET X == CycleTargets[i].name
                     p == "meta_analyze(" \o X \o ")"
                 IN /\ Occurrences(Children(lineage', p), "analyze_" \o X) =
                          Occurrences(ChildrenOrNone(lineage, p), "analyze_" \o X) + 1
                    /\ Cardinality({j \in DOMAIN capabilities' :
                                       capabilities'[j].name = "analyze_" \o X}) = 1
      ]_<<engine, last.op>>

\* two cycles over x: the analyzer is listed twice and registered once
C28_Witness ==
    /\ cycle_count = 2
    /\ last.op = "execute_cycle"
    /\ "meta_analyze(x)" \in Keys(lineage)
    /\ Children(lineage, "meta_analyze(x)") = <<"analyze_x", "analyze_x">>
    /\ Cardinality({j \in DOMAIN capabilities : capabilities[j].name = "analyze_x"}) = 1


\* C29 --------------------------------------------------------------------
StartsWith(s, prefix) == Len(s) >= Len(prefix) /\ SubSeq(s, 1, Len(prefix)) = prefix

NoLayer0Analyzer(caps) ==
    \A i \in DOMAIN caps : caps[i].layer = 0 => ~StartsWith(caps[i].name, "analyze_")

\* the registered names with their layers, in registry order
NameLayers(caps) == [i \in DOMAIN caps |-> <<caps[i].name, caps[i].layer>>]

\* C29: when an execute_cycle starts with no layer-0 capability named
\* "analyze_...", the registry it leaves is a fixed point: the execute_cycle
\* that follows it (and so every later one) leaves the registered names and
\* every layer as they are, and raises only the counter and the lineage lists.
\* (The proviso is read in the state the first cycle starts from: a layer-0
\* "analyze_x" among the first three is overwritten by the first cycle, which
\* moves a fourth layer-0 capability into the slice of the second.)
\* In any cycle, a layer-0 capability behind the first three gets no analyzer.
C29_CycleFixedPoint ==
    [][last'.op = "execute_cycle" =>
          /\ NoLayer0Analyzer(capabilities) =>
                LET again == execute_cycle(Registry', cycle_count')
                IN /\ NoLayer0Analyzer(capabilities')
                   /\ NameLayers(again.registry.capabilities) = NameLayers(capabilities')
                   /\ again.cycle_count = cycle_count' + 1
                   /\ SumLen(again.registry.lineage) =
                          SumLen(lineage') + Len(last'.result.new_capabilities)
          /\ LET l0 == Layer0Names(capabilities)
             IN \A i \in DOMAIN l0 : i > CycleLimit =>
                   /\ \A j \in DOMAIN born' : born'[j].tool.metadata.target # l0[i]
                   /\ ("analyze_" \o l0[i]) \notin Names(capabilities') \ Names(capabilities)
      ]_<<engine, last.op>>

\* a second execute_cycle in a row that changed no name and no layer, with a
\* fourth layer-0 capability that has no analyzer
C29_Witness ==
    /\ last.op = "execute_cycle"
    /\ cycle_count = 2
    /\ NoLayer0Analyzer(capabilities)
    /\ Len(last.result.new_capabilities) = 3
    /\ Len(Layer0Names(capabilities)) = 4
    /\ ("analyze_" \o Layer0Names(capabilities)[4]) \notin Names(capabilities)
    /\ NameLayers(execute_cycle(Registry, cycle_count).registry.capabilities) = NameLayers(capabilities)


\* C22 --------------------------------------------------------------------
\* the lineage map lists every one of `children` under `key` and holds no other key
OnlyKey(key, child) ==
    /\ Keys(lineage) = {key}
    /\ \A i \in DOMAIN Children(lineage, key) : Children(lineage, key)[i] = child

\* C22: max_lineage_depth() ends with a finite value on every lineage map
\* register can build, cyclic ones included: the value is at most the number
\* of lineage keys, a name that is no key contributes 0, a key that is its own
\* only child gives 1, and two keys that are each other's only child give 2.
C22_DepthTerminatesBounded ==
    /\ max_lineage_depth(Registry) \in 0..Len(lineage)
    /\ \A n \in Names(capabilities) :
          /\ depth(lineage, n, {}) \in 0..Len(lineage)
          /\ n \notin Keys(lineage) => depth(lineage, n, {}) = 0
    /\ last.op = "max_lineage_depth" => last.result = max_lineage_depth(Registry)
    /\ (OnlyKey("a", "a") /\ "a" \in Names(capabilities)) => max_lineage_depth(Registry) = 1
    /\ ( /\ Keys(lineage) = {"a", "b"}
         /\ \A i \in DOMAIN Children(lineage, "a") : Children(lineage, "a")[i] = "b"
         /\ \A i \in DOMAIN Children(lineage, "b") : Children(lineage, "b")[i] = "a" )
       => max_lineage_depth(Registry) = 2

\* the depth was asked of a map in which a and b are each other's child
C22_Witness ==
    /\ last.op = "max_lineage_depth"
    /\ last.result = 2
    /\ Keys(lineage) = {"a", "b"}
    /\ Children(lineage, "a") = <<"b">>
    /\ Children(lineage, "b") = <<"a">>

\* the depth was asked of a map in which a is its own child
C22_WitnessSelf ==
    /\ last.op = "max_lineage_depth"
    /\ last.result = 1
    /\ OnlyKey("a", "a")


\* C30 --------------------------------------------------------------------
\* C30: a generated capability keeps invoking the callables its source names
\* had when it was generated.  Every call an invoked generated capability
\* makes goes to one of its source names and ends as the callable bound under
\* that name at generation ends on the same arguments, whatever the name holds
\* now; a cultivate under a name makes get(name) return the new capability.
C30_SourcesBoundAtGeneration ==
    /\ (last.op = "invoke" /\ last.args[1] \in DOMAIN bound) =>
          LET G == last.args[1]
              srcs == OrderedSources(get(Registry, G)[1])
              calls == last.result.calls
          IN /\ calls # << >>
             /\ \A k \in DOMAIN calls :
                   \E i \in DOMAIN srcs :
                      /\ srcs[i] = calls[k].callee
                      /\ LET o == Exec(bound[G][i], calls[k].args, memo)
                         IN o.raised = calls[k].raised /\ o.value = calls[k].value
             /\ (G = "add_safe" /\ bound[G] = << <<"fn", "add">> >> /\ last.args[2] = <<PyInt(4), PyInt(5)>>)
                   => (~last.result.raised /\ last.result.value = PyInt(9))
    /\ last.op = "cultivate" => get(Registry, last.result.name) = <<last.result>>

\* add_safe was made from add, the name add was then given to multiply, and
\* add_safe still adds
C30_Witness ==
    /\ last.op = "invoke"
    /\ last.args = <<"add_safe", <<PyInt(4), PyInt(5)>>>>
    /\ "add_safe" \in DOMAIN bound
    /\ bound["add_safe"] = << <<"fn", "add">> >>
    /\ get(Registry, "add")[1].func = <<"fn", "multiply">>
    /\ last.result.value = PyInt(9)

\* the source overwritten by a generated capability of the same name
C30_WitnessGenerated ==
    /\ last.op = "invoke"
    /\ last.args[1] = "add_safe_logged"
    /\ bound["add_safe_logged"] = << <<"fn", "add">> >>
    /\ get(Registry, "add_safe")[1].func[1] = "safe"
    /\ last.result.value = PyInt(9)


\* C21 --------------------------------------------------------------------
PhaseOps ==
    <<"crystallize_problem", "map_perspectives", "identify_negation",
      "crystallize_solution", "validate_solution">>

PhaseNumber(op) == CHOOSE k \in DOMAIN PhaseOps : PhaseOps[k] = op

IsPhaseOp(op) == \E k \in DOMAIN PhaseOps : PhaseOps[k] = op

\* the optional arguments of the call were all left out
DefaultArgs(l) ==
    CASE l.op = "identify_negation" -> l.args = << << >> >>
      [] l.op \in {"crystallize_solution", "validate_solution"} -> l.args = << << >>, << >> >>
      [] OTHER -> TRUE

\* C21: every phase operation that succeeds sets phase to its own number.
\* The five operations in order on a fresh engine all succeed: crystallize_problem
\* always does and leaves a problem; with a problem map_perspectives succeeds,
\* and given two perspectives leaves at least two; with two perspectives
\* identify_negation() succeeds and leaves a negation zone; with a zone
\* crystallize_solution() succeeds and leaves a solution; with a solution
\* validate_solution() succeeds.
C21_PhaseProtocol ==
    [][IsPhaseOp(last'.op) =>
          /\ ~last'.result.raised => phase' = PhaseNumber(last'.op)
          /\ last'.op = "crystallize_problem" => ~last'.result.raised /\ problem' # << >>
          /\ (last'.op = "map_perspectives" /\ problem # << >>) =>
                /\ ~last'.result.raised
                /\ Len(last'.args[1]) >= 2 => Len(perspectives') >= 2
          /\ (last'.op = "identify_negation" /\ DefaultArgs(last') /\ Len(perspectives) >= 2) =>
                ~last'.result.raised /\ negation' # << >>
          /\ (last'.op = "crystallize_solution" /\ DefaultArgs(last') /\ negation # << >>) =>
                ~last'.result.raised /\ solution' # << >>
          /\ (last'.op = "validate_solution" /\ DefaultArgs(last') /\ solution # << >>) =>
                ~last'.result.raised
      ]_<<dialectic, last.op, last.args>>

\* the protocol was run to its end with default arguments
C21_Witness ==
    /\ last.op = "validate_solution"
    /\ DefaultArgs(last)
    /\ ~last.result.raised
    /\ phase = 5
    /\ problem # << >> /\ Len(perspectives) = 2 /\ negation # << >> /\ solution # << >>
    /\ last.result.value["overall"].total_criteria = 5

\* C25 --------------------------------------------------------------------
\* C25: a phase operation called out of order raises ValueError and leaves
\* phase, problem, perspectives, negation and solution as they were:
\* map_perspectives with no problem, identify_negation() with fewer than two
\* perspectives, crystallize_solution() with no negation zone and
\* validate_solution() with no solution.
C25_OutOfOrderRejected ==
    [][IsPhaseOp(last'.op) =>
          /\ ( \/ last'.op = "map_perspectives" /\ problem = << >>
               \/ last'.op = "identify_negation" /\ DefaultArgs(last') /\ Len(perspectives) < 2
               \/ last'.op = "crystallize_solution" /\ DefaultArgs(last') /\ negation = << >>
               \/ last'.op = "validate_solution" /\ DefaultArgs(last') /\ solution = << >> )
             => /\ last'.result.raised
                /\ last'.result.value[2] = "ValueError"
          /\ last'.result.raised => UNCHANGED dialectic
      ]_<<dialectic, last.op, last.args>>

\* identify_negation() was refused on an engine that had reached phase 2
\* with a single perspective
C25_Witness ==
    /\ last.op = "identify_negation"
    /\ last.result.raised
    /\ last.result.value = <<"exc", "ValueError", "Need at least 2 perspectives">>
    /\ phase = 2
    /\ Len(perspectives) = 1
    /\ negation = << >>


\* C26 --------------------------------------------------------------------
\* the message is one the agent of role r is to receive
Deliverable(m, r) ==
    IF m.to_agent = << >> THEN m.from_agent # r ELSE m.to_agent[1] = r

\* C26: every agent's inbox holds, in the order they were emitted and once per
\* emission, exactly the broadcasts of other agents and the messages addressed
\* to it; a message addressed to a role outside the troupe is in no inbox.
C26_MessageRouting ==
    /\ DOMAIN inboxes = {agents[i] : i \in DOMAIN agents}
    /\ \A r \in DOMAIN inboxes :
          /\ inboxes[r] = SelectSeq(sent, LAMBDA m : Deliverable(m, r))
          /\ \A i \in DOMAIN inboxes[r] :
                \/ inboxes[r][i].to_agent = <<r>>
                \/ inboxes[r][i].to_agent = << >> /\ inboxes[r][i].from_agent # r
    /\ last.op = "collaborate" => last.result.message_count = 3 * Len(agents) * last.args[2]

\* a collaboration of three agents: the crystallizer holds the negator's
\* targeted message and the broadcasts of the others, none of its own, and
\* the builder the crystallizer addresses is not in the troupe
C26_Witness ==
    /\ last.op = "collaborate"
    /\ last.args[2] >= 1
    /\ agents = <<"negator", "crystallizer", "validator">>
    /\ \E i \in DOMAIN inboxes["crystallizer"] :
           inboxes["crystallizer"][i].to_agent = <<"crystallizer">>
    /\ \E i \in DOMAIN inboxes["crystallizer"] :
           inboxes["crystallizer"][i].to_agent = << >>
    /\ \E i \in DOMAIN sent : sent[i].to_agent = <<"builder">>
    /\ Len(inboxes["crystallizer"]) < Len(sent)

=============================================================================
